---- MODULE Spec2Model ----
(***************************************************************************)
(* AniMind video player: subtitle cue parsing and lookup, playback         *)
(* progress persistence (VideoModal + dbService).                          *)
(*                                                                         *)
(* Strings are sequences of one-character strings.  Numbers are records    *)
(* [nan, v] with v in milliseconds, so that fractional seconds and NaN     *)
(* are both representable.                                                 *)
(***************************************************************************)
EXTENDS Integers, Sequences, FiniteSets, TLC

(***************************************************************************)
(* Bounds                                                                  *)
(***************************************************************************)
MaxBlocks == 3       \* blocks per subtitle document
NumEpisodes == 2     \* episodes of the played title (the source lists 12)
MaxPos == 1          \* playback positions 0 .. MaxPos, in steps of PosStep
MaxInflight == 2     \* saveProgress calls awaiting the backend
MaxLoads == 2        \* getProgress calls awaiting the backend
PosStep == 3000      \* milliseconds between two modelled positions
MaxTimers == 1       \* pending auto-advance timeouts
Tick == 20000        \* milliseconds between two modelled readings of the clock
MaxTicks == 4        \* the clock runs from 0 to MaxTicks * Tick

\* new RateLimiter(5, 60000)
LoginMaxAttempts == 5
LoginWindowMs == 60000

(***************************************************************************)
(* JavaScript numbers                                                      *)
(***************************************************************************)
Num(n) == [nan |-> FALSE, v |-> n]
NaN == [nan |-> TRUE, v |-> 0]
Plus(a, b) == IF a.nan \/ b.nan THEN NaN ELSE Num(a.v + b.v)
Mul(a, k) == IF a.nan THEN NaN ELSE Num(a.v * k)
Leq(a, b) == ~a.nan /\ ~b.nan /\ a.v <= b.v
Geq(a, b) == ~a.nan /\ ~b.nan /\ a.v >= b.v
Gt(a, b) == ~a.nan /\ ~b.nan /\ a.v > b.v

(***************************************************************************)
(* JavaScript string primitives                                            *)
(***************************************************************************)
Digits == <<"0", "1", "2", "3", "4", "5", "6", "7", "8", "9">>
IsDigit(c) == \E d \in 1..10 : Digits[d] = c
DigitVal(c) == (CHOOSE d \in 1..10 : Digits[d] = c) - 1
IsSpace(c) == c \in {" ", "\t", "\r", "\n"}

StartsAt(s, sep, i) ==
    /\ i + Len(sep) - 1 <= Len(s)
    /\ SubSeq(s, i, i + Len(sep) - 1) = sep

RECURSIVE IndexOfFrom(_, _, _)
IndexOfFrom(s, sep, i) ==
    IF i + Len(sep) - 1 > Len(s) THEN 0
    ELSE IF StartsAt(s, sep, i) THEN i
    ELSE IndexOfFrom(s, sep, i + 1)

includes(s, sep) == IndexOfFrom(s, sep, 1) # 0

RECURSIVE split(_, _)
split(s, sep) ==
    LET k == IndexOfFrom(s, sep, 1)
    IN  IF k = 0 THEN <<s>>
        ELSE <<SubSeq(s, 1, k - 1)>> \o split(SubSeq(s, k + Len(sep), Len(s)), sep)

RECURSIVE trimStart(_)
trimStart(s) ==
    IF s # <<>> /\ IsSpace(Head(s)) THEN trimStart(Tail(s)) ELSE s

RECURSIVE trimEnd(_)
trimEnd(s) ==
    IF s # <<>> /\ IsSpace(s[Len(s)]) THEN trimEnd(SubSeq(s, 1, Len(s) - 1)) ELSE s

trim(s) == trimEnd(trimStart(s))

\* Length of the longest prefix of s made of decimal digits.
RECURSIVE DigitRun(_)
DigitRun(s) ==
    IF s # <<>> /\ IsDigit(Head(s)) THEN 1 + DigitRun(Tail(s)) ELSE 0

\* Value of a string of decimal digits.
RECURSIVE DecVal(_)
DecVal(s) ==
    IF s = <<>> THEN 0 ELSE DecVal(SubSeq(s, 1, Len(s) - 1)) * 10 + DigitVal(s[Len(s)])

\* Fraction digits as milliseconds: ".5" is 500, ".25" is 250, ".1234" is 123.
FracMillis(s) ==
    LET d(i) == IF i <= Len(s) THEN DigitVal(s[i]) ELSE 0
    IN  d(1) * 100 + d(2) * 10 + d(3)

Signed(s) == s # <<>> /\ Head(s) \in {"+", "-"}
Unsigned(s) == IF Signed(s) THEN Tail(s) ELSE s
Sign(s) == IF s # <<>> /\ Head(s) = "-" THEN -1 ELSE 1

HexDigits == <<"0", "1", "2", "3", "4", "5", "6", "7", "8", "9",
               "a", "b", "c", "d", "e", "f">>
IsHex(c) == \E d \in 1..16 : HexDigits[d] = c
HexDigitVal(c) == (CHOOSE d \in 1..16 : HexDigits[d] = c) - 1

RECURSIVE HexRun(_)
HexRun(s) ==
    IF s # <<>> /\ IsHex(Head(s)) THEN 1 + HexRun(Tail(s)) ELSE 0

RECURSIVE HexVal(_)
HexVal(s) ==
    IF s = <<>> THEN 0 ELSE HexVal(SubSeq(s, 1, Len(s) - 1)) * 16 + HexDigitVal(s[Len(s)])

\* parseInt(str) without radix: leading white space, sign, then the longest
\* run of digits; NaN when there is none.  A "0x" prefix selects radix 16.
\* (Upper-case hexadecimal digits do not occur in the modelled documents.)
parseInt(str) ==
    LET t == trimStart(str)
        u == Unsigned(t)
        n == DigitRun(u)
        hex == Len(u) >= 2 /\ u[1] = "0" /\ u[2] \in {"x", "X"}
        h == SubSeq(u, 3, Len(u))
    IN  IF hex
        THEN (IF HexRun(h) = 0 THEN NaN
              ELSE Num(Sign(t) * HexVal(SubSeq(h, 1, HexRun(h))) * 1000))
        ELSE IF n = 0 THEN NaN
        ELSE Num(Sign(t) * DecVal(SubSeq(u, 1, n)) * 1000)

\* parseFloat(str): leading white space, sign, digits, optional fraction;
\* NaN when there is no digit at all.  (Exponents and the literal "Infinity"
\* do not occur in the modelled strings.)
parseFloat(str) ==
    LET t == trimStart(str)
        u == Unsigned(t)
        n == DigitRun(u)
        rest == SubSeq(u, n + 1, Len(u))
        hasDot == rest # <<>> /\ Head(rest) = "."
        f == IF hasDot THEN DigitRun(Tail(rest)) ELSE 0
        frac == IF f = 0 THEN 0 ELSE FracMillis(SubSeq(Tail(rest), 1, f))
    IN  IF n = 0 /\ f = 0 THEN NaN
        ELSE Num(Sign(t) * (DecVal(SubSeq(u, 1, n)) * 1000 + frac))

(***************************************************************************)
(* Cue parser                                                              *)
(***************************************************************************)
Arrow == <<"-", "-", ">">>
Colon == <<":">>
NL == <<"\n">>

\* A conversion that reads the seconds field with parseInt, dropping the
\* fraction; C13 must tell it from parseTime.
parseTime_wholeSeconds(timeStr) ==
    LET parts == split(timeStr, Colon)
    IN  IF Len(parts) = 3
        THEN Plus(Plus(Mul(parseInt(parts[1]), 3600), Mul(parseInt(parts[2]), 60)),
                  parseInt(parts[3]))
        ELSE IF Len(parts) = 2
        THEN Plus(Mul(parseInt(parts[1]), 60), parseInt(parts[2]))
        ELSE Num(0)

\* A conversion that reads every timestamp as minutes and seconds, whatever
\* the number of segments; C21 must tell it from parseTime.
parseTime_minutesSeconds(timeStr) ==
    LET parts == split(timeStr, Colon)
        n == Len(parts)
    IN  IF n >= 2
        THEN Plus(Mul(parseInt(parts[n - 1]), 60), parseFloat(parts[n]))
        ELSE Num(0)

parseTime(timeStr) ==
    LET parts == split(timeStr, Colon)
    IN  IF Len(parts) = 3
        THEN Plus(Plus(Mul(parseInt(parts[1]), 3600), Mul(parseInt(parts[2]), 60)),
                  parseFloat(parts[3]))
        ELSE IF Len(parts) = 2
        THEN Plus(Mul(parseInt(parts[1]), 60), parseFloat(parts[2]))
        ELSE Num(0)

\* A caption that ends after its first line; C12 must tell it from CaptionEnd.
CaptionEnd_oneLine(lines, i) ==
    IF i <= Len(lines) /\ trim(lines[i]) # <<>> THEN i + 1 ELSE i

\* Index of the first line at or after i that is blank after trimming, or
\* Len(lines) + 1: where the inner caption loop of parseVTT stops.
RECURSIVE CaptionEnd(_, _)
CaptionEnd(lines, i) ==
    IF i <= Len(lines) /\ trim(lines[i]) # <<>> THEN CaptionEnd(lines, i + 1) ELSE i

\* lines[from..to-1] joined with a newline.
RECURSIVE JoinLines(_, _, _)
JoinLines(lines, from, to) ==
    IF from >= to THEN <<>>
    ELSE IF from = to - 1 THEN lines[from]
    ELSE lines[from] \o NL \o JoinLines(lines, from + 1, to)

\* destructuring [startStr, endStr] of an array: a missing element is
\* undefined, and parseTime(undefined) throws; split on a separator the line
\* includes always yields two elements or more.
RECURSIVE parseLines(_, _)
parseLines(lines, i) ==
    IF i > Len(lines) THEN <<>>
    ELSE LET line == trim(lines[i])
         IN  IF includes(line, Arrow)
             THEN LET fields == split(line, Arrow)
                      start == parseTime(trim(fields[1]))
                      end == parseTime(trim(fields[2]))
                      j == CaptionEnd(lines, i + 1)
                      text == JoinLines(lines, i + 1, j)
                  IN  (IF text # <<>>
                       THEN <<[start |-> start, end |-> end, text |-> trim(text)]>>
                       ELSE <<>>) \o parseLines(lines, j)
             ELSE parseLines(lines, i + 1)

parseVTT(content) == parseLines(split(content, NL), 1)

\* A lookup that takes the last containing cue instead of the first; C1 must
\* tell it from findCue.
findCue_lastMatch(cues, t, i) ==
    LET S == {j \in i..Len(cues) : Geq(Num(t), cues[j].start) /\ Leq(Num(t), cues[j].end)}
    IN  IF S = {} THEN 0 ELSE CHOOSE j \in S : \A k \in S : k <= j

\* Array.prototype.find with the predicate of updateProgress: index of the
\* first cue with start <= t <= end, 0 when there is none.
RECURSIVE findCue(_, _, _)
findCue(cues, t, i) ==
    IF i > Len(cues) THEN 0
    ELSE IF Geq(Num(t), cues[i].start) /\ Leq(Num(t), cues[i].end) THEN i
    ELSE findCue(cues, t, i + 1)

(***************************************************************************)
(* Number.prototype.toString for the millisecond-resolution values used    *)
(* here: "47.3" for 47300, "-1.5" for -1500, "0" for 0.                    *)
(***************************************************************************)
RECURSIVE DecStr(_)
DecStr(n) ==
    IF n < 10 THEN <<Digits[n + 1]>> ELSE DecStr(n \div 10) \o <<Digits[(n % 10) + 1]>>

FracStr(f) ==
    LET d1 == Digits[(f \div 100) + 1]
        d2 == Digits[((f \div 10) % 10) + 1]
        d3 == Digits[(f % 10) + 1]
    IN  IF f % 10 # 0 THEN <<".", d1, d2, d3>>
        ELSE IF f % 100 # 0 THEN <<".", d1, d2>>
        ELSE IF f # 0 THEN <<".", d1>>
        ELSE <<>>

toString(x) ==
    IF x.nan THEN <<"N", "a", "N">>
    ELSE LET a == IF x.v < 0 THEN -x.v ELSE x.v
         IN  (IF x.v < 0 THEN <<"-">> ELSE <<>>) \o DecStr(a \div 1000) \o FracStr(a % 1000)

(***************************************************************************)
(* Progress store: dbService.ts (with the local mock used for the dev      *)
(* user) and the later dbService (src/unnamed/part_008) that rethrows.     *)
(***************************************************************************)
DEV_USER_ID == "dev-user-id"

\* `${LOCAL_PROGRESS_KEY}_${animeId}_${episodeIndex}`: the three parts
\* determine the string, the episode index being an integer.
progressKey(animeId, episodeIndex) == <<"animind_dev_progress", animeId, episodeIndex>>

\* localStorage.setItem / getItem on a store held as a function.
setItem(ls, key, value) ==
    [k \in DOMAIN ls \cup {key} |-> IF k = key THEN value ELSE ls[k]]

\* An insert that ignores the conflict target; C4 must tell it from upsert.
upsert_insertOnly(tbl, row) == tbl \cup {row}

\* A write that replaces the table by the row written; C23 must tell it from
\* upsert.
upsert_replacingTable(tbl, row) == {row}

\* upsert(row, { onConflict: 'user_id, anime_id, episode_index' })
upsert(tbl, row) ==
    {r \in tbl : ~(/\ r.user_id = row.user_id
                   /\ r.anime_id = row.anime_id
                   /\ r.episode_index = row.episode_index)} \cup {row}

\* select('timestamp').eq(user_id).eq(anime_id).eq(episode_index)
selectRows(tbl, userId, animeId, episodeIndex) ==
    {r \in tbl : /\ r.user_id = userId
                 /\ r.anime_id = animeId
                 /\ r.episode_index = episodeIndex}

usesLocalMock(db, userId) == db = "dbService" /\ userId = DEV_USER_ID

(***************************************************************************)
(* State                                                                   *)
(***************************************************************************)
VARIABLES
    cfg,                    \* [modal, db, userId]: the source files in use
    storage,                \* localStorage: "ok", "full" (setItem throws)
                            \* or "denied" (every access throws)
    tracks,                 \* SUBTITLE_TRACKS: id -> document
    mounted,                \* the VideoModal is rendered
    currentEpisodeIndex,
    isPlaying,
    video,                  \* the media element: [paused, currentTime]
    currentTime,            \* the displayed time (React state)
    playbackRate,           \* the chosen speed (React state)
    currentSubtitleTrackId,
    subtitleCues,
    activeSubtitle,
    loads,                  \* getProgress calls in flight: [episodeIndex, isMounted]
    saveTimer,              \* the interval of the save effect: [active, episodeIndex]
    trace,                  \* what the load effect of the current target has done so far
    inflight,               \* saveProgress calls in flight
    progressTable,          \* rows of the backend table 'progress'
    localStorage,           \* key -> string
    console,                \* what the last step logged with console.error
    unhandled,              \* exceptions and rejections the last step left unhandled
    ev,                     \* the call made by the test harness in the last step
    ret,                    \* what that call returned
    written,                \* key -> value of the last save the store accepted
    vtt,                    \* a parseVTT call in progress: its locals and position
    advanceTimers,          \* pending setTimeout callbacks of handleEnded
    loginRateLimiter,       \* the RateLimiter of Login.tsx: [attempts]
    now,                    \* Date.now()
    onLogin,                \* the times at which onLogin was called
    error,                  \* the error the login form shows
    supabase                \* a handleGoogleCallback call: session, profiles, position

vars == <<cfg, storage, tracks, mounted, currentEpisodeIndex, isPlaying, video,
          currentTime, playbackRate, currentSubtitleTrackId, subtitleCues, activeSubtitle,
          loads, saveTimer, trace, inflight, progressTable, localStorage, console,
          unhandled, ev, ret, written, vtt, advanceTimers, loginRateLimiter, now,
          onLogin, error, supabase>>

playerVars == <<mounted, currentEpisodeIndex, isPlaying, video, currentTime,
                loads, saveTimer, trace>>
subtitleVars == <<currentSubtitleTrackId, subtitleCues, activeSubtitle>>
configVars == <<cfg, storage, tracks>>
loginVars == <<loginRateLimiter, now, onLogin, error>>

Modals == {"VideoModal", "part_003", "part_004"}
Dbs == {"dbService", "part_008"}
UserIds == {DEV_USER_ID, "u1"}
AnimeId == "a1"
Episodes == 0 .. (NumEpisodes - 1)
Positions == {k * PosStep : k \in 0 .. MaxPos}
Outcomes == {"ok", "error", "exception"}
NoTrack == "null"
Empty == <<>>

(***************************************************************************)
(* dbService: saveProgress and getProgress                                 *)
(***************************************************************************)
\* A row keyed by the episode current when the save completes; C2 must tell
\* it from Row.
Row_keyAtCompletion(m) ==
    [user_id |-> m.user_id, anime_id |-> m.anime_id,
     episode_index |-> currentEpisodeIndex, timestamp |-> m.timestamp]

\* The row saveProgress upserts.
Row(m) == [user_id |-> m.user_id, anime_id |-> m.anime_id,
           episode_index |-> m.episode_index, timestamp |-> m.timestamp]

Request(userId, animeId, episodeIndex, timestamp, caller) ==
    [user_id |-> userId, anime_id |-> animeId, episode_index |-> episodeIndex,
     timestamp |-> timestamp, caller |-> caller]

\* What saveProgress itself logs when the backend answers with `outcome`.
saveLogs(db, outcome) ==
    IF outcome = "ok" THEN <<>>
    ELSE IF db = "dbService"
    THEN (IF outcome = "error" THEN <<"Error saving progress:">>
          ELSE <<"Save progress exception:">>)
    ELSE (IF outcome = "error"
          THEN <<"Error saving progress:", "Save progress exception:">>
          ELSE <<"Save progress exception:">>)

\* Whether the promise returned by saveProgress is rejected.
saveRejects(db, outcome) == db = "part_008" /\ outcome # "ok"

\* The dev-user branch of saveProgress: localStorage.setItem outside any try.
mockSaveThrows == storage # "ok"

\* What the caller does with a rejected saveProgress promise.
callerLogs(modal, caller) ==
    IF modal = "part_003" /\ caller = "interval" THEN <<"Failed to save progress:">>
    ELSE IF modal = "part_003" /\ caller = "cleanup"
    THEN <<"Failed to save progress on cleanup:">>
    ELSE <<>>

callerUnhandled(modal, caller) ==
    IF modal = "part_004" /\ caller \in {"interval", "cleanup"}
    THEN <<"unhandled rejection: saveProgress">>
    ELSE <<>>

\* getProgress against given store contents: [rejected, value]
getProgressIn(ls, tbl, userId, animeId, episodeIndex, outcome) ==
    IF usesLocalMock(cfg.db, userId)
    THEN IF storage = "denied" THEN [rejected |-> TRUE, value |-> Num(0)]
         ELSE LET key == progressKey(animeId, episodeIndex)
              IN  [rejected |-> FALSE,
                   value |-> IF key \in DOMAIN ls /\ ls[key] # <<>>
                             THEN parseFloat(ls[key]) ELSE Num(0)]
    ELSE LET rows == selectRows(tbl, userId, animeId, episodeIndex)
         IN  [rejected |-> FALSE,
              value |-> IF outcome = "ok" /\ Cardinality(rows) = 1
                        THEN (CHOOSE r \in rows : TRUE).timestamp ELSE Num(0)]

getProgress(userId, animeId, episodeIndex, outcome) ==
    getProgressIn(localStorage, progressTable, userId, animeId, episodeIndex, outcome)

\* The backend answers a saveProgress call.
SaveDone(m, outcome) ==
    /\ m \in inflight
    /\ inflight' = inflight \ {m}
    /\ progressTable' = IF outcome = "ok" THEN upsert(progressTable, Row(m))
                        ELSE progressTable
    /\ console' = saveLogs(cfg.db, outcome) \o
                  (IF saveRejects(cfg.db, outcome) THEN callerLogs(cfg.modal, m.caller)
                   ELSE <<>>)
    /\ unhandled' = IF saveRejects(cfg.db, outcome)
                    THEN callerUnhandled(cfg.modal, m.caller) ELSE <<>>
    /\ UNCHANGED <<configVars, vtt, advanceTimers, loginVars, supabase, playbackRate, playerVars, subtitleVars, localStorage, ret>>

\* A caller invokes saveProgress.  The dev-user branch writes localStorage
\* before the call returns; every other call goes to the backend.
issueSave(m) ==
    IF usesLocalMock(cfg.db, m.user_id)
    THEN /\ inflight' = inflight
         /\ localStorage' =
                IF mockSaveThrows THEN localStorage
                ELSE setItem(localStorage, progressKey(m.anime_id, m.episode_index),
                             toString(m.timestamp))
    ELSE /\ Cardinality(inflight \cup {m}) <= MaxInflight
         /\ inflight' = inflight \cup {m}
         /\ localStorage' = localStorage

issueRejects(m) == usesLocalMock(cfg.db, m.user_id) /\ mockSaveThrows
issueLogs(m) == IF issueRejects(m) THEN callerLogs(cfg.modal, m.caller) ELSE <<>>
issueUnhandled(m) == IF issueRejects(m) THEN callerUnhandled(cfg.modal, m.caller) ELSE <<>>

(***************************************************************************)
(* The store on its own: any caller, any key, any value                    *)
(***************************************************************************)
ApiTimestamps == {-1500, 47300}
StoreKey(userId, animeId, episodeIndex) == <<userId, animeId, episodeIndex>>
Record(f, key, value) == [k \in DOMAIN f \cup {key} |-> IF k = key THEN value ELSE f[k]]

\* No parseVTT call is in progress.
NoParse == [pc |-> "idle"]

\* The login form before any submit: new RateLimiter(5, 60000) has no
\* attempts, onLogin has not been called, no error is shown.
NoLogin ==
    /\ loginRateLimiter = [attempts |-> <<>>]
    /\ now = 0
    /\ onLogin = <<>>
    /\ error = <<>>

\* No OAuth redirect has come back yet.
NoAuth == [pc |-> "idle"]

Idle ==
    /\ mounted = FALSE
    /\ currentEpisodeIndex = 0
    /\ isPlaying = FALSE
    /\ video = [paused |-> TRUE, currentTime |-> 0]
    /\ currentTime = 0
    /\ playbackRate = Num(1000)
    /\ currentSubtitleTrackId = NoTrack
    /\ subtitleCues = <<>>
    /\ activeSubtitle = Empty
    /\ loads = {}
    /\ saveTimer = [active |-> FALSE, episodeIndex |-> 0]
    /\ trace = <<>>
    /\ inflight = {}
    /\ progressTable = {}
    /\ localStorage = << >>
    /\ console = <<>>
    /\ unhandled = <<>>
    /\ ev = <<"init">>
    /\ ret = [rejected |-> FALSE, value |-> Num(0)]
    /\ written = << >>
    /\ vtt = NoParse
    /\ advanceTimers = 0
    /\ NoLogin
    /\ supabase = NoAuth

InitStore ==
    /\ cfg \in [modal : {"none"}, db : Dbs, userId : {"none"}]
    /\ storage \in (IF cfg.db = "dbService" THEN {"ok", "full", "denied"} ELSE {"ok"})
    /\ tracks = << >>
    /\ Idle

ApiSave(userId, episodeIndex, t) ==
    LET m == Request(userId, AnimeId, episodeIndex, Num(t), "api")
    IN  /\ issueSave(m)
        /\ ev' = <<"saveProgress">>
        /\ ret' = [rejected |-> issueRejects(m), value |-> Num(0)]
        /\ written' = IF usesLocalMock(cfg.db, userId) /\ ~mockSaveThrows
                      THEN Record(written, StoreKey(userId, AnimeId, episodeIndex), Num(t))
                      ELSE written
        /\ console' = <<>>
        /\ unhandled' = <<>>
        /\ UNCHANGED <<configVars, vtt, advanceTimers, loginVars, supabase, playbackRate, playerVars, subtitleVars, progressTable>>

ApiSaveDone(m, outcome) ==
    /\ SaveDone(m, outcome)
    /\ ev' = <<"saveDone">>
    /\ written' = IF outcome = "ok"
                  THEN Record(written, StoreKey(m.user_id, m.anime_id, m.episode_index),
                              m.timestamp)
                  ELSE written

ApiGet(userId, episodeIndex, outcome) ==
    /\ ret' = getProgress(userId, AnimeId, episodeIndex, outcome)
    /\ ev' = <<"getProgress", userId, episodeIndex, outcome>>
    /\ console' = <<>>
    /\ unhandled' = <<>>
    /\ UNCHANGED <<configVars, vtt, advanceTimers, loginVars, supabase, playbackRate, playerVars, subtitleVars, inflight, progressTable,
                   localStorage, written>>

NextStore ==
    \/ \E u \in UserIds, e \in Episodes, t \in ApiTimestamps : ApiSave(u, e, t)
    \/ \E m \in inflight, o \in Outcomes : ApiSaveDone(m, o)
    \/ \E u \in UserIds, e \in Episodes, o \in Outcomes : ApiGet(u, e, o)

SpecStore == InitStore /\ [][NextStore]_vars

\* The read reached the store and the store answered.
ReadAnswered(userId, outcome) ==
    IF usesLocalMock(cfg.db, userId) THEN storage # "denied" ELSE outcome = "ok"

\* C4: a getProgress that the store answers returns the value of the last
\* saveProgress the store accepted for the same (user, title, episode), and 0
\* for a key no save was accepted for.
C4_RegisterSemantics ==
    (ev[1] = "getProgress" /\ ReadAnswered(ev[2], ev[4])) =>
        LET key == StoreKey(ev[2], AnimeId, ev[3])
        IN  /\ ~ret.rejected
            /\ ret.value = IF key \in DOMAIN written THEN written[key] ELSE Num(0)

\* A key was saved twice with different values, another key was saved too,
\* and the key is read back.
C4_Witness ==
    /\ ev[1] = "getProgress" /\ ReadAnswered(ev[2], ev[4])
    /\ StoreKey(ev[2], AnimeId, ev[3]) \in DOMAIN written
    /\ ret.value = Num(47300)
    /\ \E k \in DOMAIN written : k # StoreKey(ev[2], AnimeId, ev[3]) /\ written[k] # ret.value

\* A read of a key that was never saved, while other keys hold values.
C4_WitnessNeverSaved ==
    /\ ev[1] = "getProgress" /\ ReadAnswered(ev[2], ev[4])
    /\ StoreKey(ev[2], AnimeId, ev[3]) \notin DOMAIN written
    /\ written # << >>

\* Every position the store holds, in either backend.
StoredPositions ==
    {r.timestamp : r \in progressTable} \cup
    {parseFloat(localStorage[k]) : k \in {x \in DOMAIN localStorage : x[1] = "animind_dev_progress"}}

\* C7: the store never holds a negative or non-finite position.
C7_NoInvalidPersisted ==
    \A p \in StoredPositions : ~p.nan /\ p.v >= 0

(***************************************************************************)
(* Subtitles                                                               *)
(***************************************************************************)
\* Blocks of a subtitle document, each a sequence of lines.
BlockA == << <<"0", ":", "0", "1", " ", "-", "-", ">", " ", "0", ":", "0", "5">>,
             <<"A">> >>
BlockB == << <<"0", ":", "0", "2", " ", "-", "-", ">", " ", "0", ":", "0", "6">>,
             <<"B">> >>
BlockD == << <<"0", "0", ":", "0", "0", ":", "0", "2", ".", "5", "0", "0", " ", "-", "-", ">",
               " ", "0", "0", ":", "0", "0", ":", "0", "3", ".", "0", "0", "0">>,
             <<"D">>, <<"E">> >>
BlockBad == << <<"x", "x", ":", "y", "y", " ", "-", "-", ">", " ", "0", ":", "0", "9">>,
               <<"C">> >>
BlockEmpty == << <<"0", ":", "1", "0", " ", "-", "-", ">", " ", "0", ":", "1", "2">> >>
BlockNum == << <<"1">>,
               <<"0", ":", "0", "0", " ", "-", "-", ">", " ", "0", ":", "0", "1", ".", "5">>,
               <<"F">> >>
BlockOf(b) ==
    CASE b = "A" -> BlockA
      [] b = "B" -> BlockB
      [] b = "D" -> BlockD
      [] b = "Bad" -> BlockBad
      [] b = "Empty" -> BlockEmpty
      [] b = "Num" -> BlockNum
BlockIds == {"A", "B", "D", "Bad", "Empty", "Num"}
WellFormedIds == {"A", "B", "D"}
MalformedIds == {"Bad"}

\* The lines of the blocks, a blank line after each block.
RECURSIVE BlockLines(_)
BlockLines(bs) ==
    IF bs = <<>> THEN <<>> ELSE BlockOf(Head(bs)) \o << <<>> >> \o BlockLines(Tail(bs))

\* A document: the header line, a blank line, then the blocks.
Render(bs) ==
    LET lines == << <<"W", "E", "B", "V", "T", "T">>, <<>> >> \o BlockLines(bs)
    IN  JoinLines(lines, 1, Len(lines) + 1)

Docs == UNION {[1..n -> BlockIds] : n \in 1..MaxBlocks}

EsBlocks == <<"B", "D">>

\* SUBTITLE_TRACKS[id].content; the state names each document by its blocks.
trackContent(id) == Render(tracks[id])

\* parseVTT of every document a track can hold, evaluated once.
ParsedDoc == [d \in Docs \cup {EsBlocks} |-> parseVTT(Render(d))] @@ << >>

\* A parse into an array shared between calls: the second of two parses of a
\* document returns the cues twice; C16 must tell it from cuesFor.
cuesFor_sharedArray(trackId) ==
    IF trackId = NoTrack THEN <<>>
    ELSE IF trackId \in DOMAIN tracks
    THEN ParsedDoc[tracks[trackId]] \o ParsedDoc[tracks[trackId]]
    ELSE <<>>

\* useMemo(() => ..., [currentSubtitleTrackId])
cuesFor(trackId) ==
    IF trackId = NoTrack THEN <<>>
    ELSE IF trackId \in DOMAIN tracks THEN ParsedDoc[tracks[trackId]]
    ELSE <<>>

\* {currentSubtitleTrackId && activeSubtitle && (...)}: the caption on screen.
\* (part_003 escapes the text for innerHTML; the browser shows the same text.)
Displayed ==
    IF mounted /\ currentSubtitleTrackId # NoTrack THEN activeSubtitle ELSE Empty

\* The 'timeupdate' listener.
updateProgress ==
    /\ mounted
    /\ currentTime' = video.currentTime
    /\ activeSubtitle' =
          IF currentSubtitleTrackId # NoTrack /\ Len(subtitleCues) > 0
          THEN LET i == findCue(subtitleCues, video.currentTime, 1)
               IN  IF i # 0 THEN subtitleCues[i].text ELSE Empty
          ELSE Empty
    /\ console' = <<>>
    /\ unhandled' = <<>>
    /\ UNCHANGED <<configVars, vtt, advanceTimers, loginVars, supabase, playbackRate, mounted, currentEpisodeIndex, isPlaying, video, loads,
                   saveTimer, trace, currentSubtitleTrackId, subtitleCues, inflight,
                   progressTable, localStorage, ret, written>>

\* The key and value under which the chosen track is remembered.
subtitlePrefKey == IF cfg.modal = "VideoModal" THEN <<"animind_subtitle_track">>
                   ELSE <<"animind_subtitle_pref">>

removeItem(ls, key) == [k \in DOMAIN ls \ {key} |-> ls[k]]

handleSubtitleTrackChange(trackId) ==
    /\ mounted
    /\ currentSubtitleTrackId' = trackId
    /\ subtitleCues' = cuesFor(trackId)
    /\ activeSubtitle' = IF cfg.modal = "VideoModal" THEN Empty ELSE activeSubtitle
    /\ localStorage' =
          IF storage # "ok" THEN localStorage
          ELSE IF cfg.modal = "VideoModal"
          THEN (IF trackId # NoTrack THEN setItem(localStorage, subtitlePrefKey, trackId)
                ELSE removeItem(localStorage, subtitlePrefKey))
          ELSE setItem(localStorage, subtitlePrefKey,
                       IF trackId # NoTrack THEN trackId ELSE "off")
    /\ console' = <<>>
    /\ unhandled' = IF storage # "ok" /\ cfg.modal # "part_003"
                    THEN <<"exception: localStorage.setItem">> ELSE <<>>
    /\ UNCHANGED <<configVars, vtt, advanceTimers, loginVars, supabase, playbackRate, playerVars, inflight, progressTable, ret, written>>

\* The seek bar: (value / 100) * duration, here one of the modelled positions.
handleSeek(t) ==
    /\ mounted
    /\ video' = [video EXCEPT !.currentTime = t]
    /\ console' = <<>>
    /\ unhandled' = <<>>
    /\ UNCHANGED <<configVars, vtt, advanceTimers, loginVars, supabase, playbackRate, mounted, currentEpisodeIndex, isPlaying, currentTime,
                   loads, saveTimer, trace, subtitleVars, inflight, progressTable,
                   localStorage, ret, written>>

defaultTrack(modal) == IF modal = "VideoModal" THEN NoTrack ELSE "en"

\* A mounted, paused player whose English track is any of the documents.
InitSubs ==
    /\ cfg \in [modal : Modals, db : {"dbService"}, userId : {"u1"}]
    /\ storage = "ok"
    /\ \E d \in Docs :
          tracks = [en |-> d, es |-> EsBlocks]
    /\ mounted = TRUE
    /\ currentEpisodeIndex = 0
    /\ isPlaying = FALSE
    /\ video = [paused |-> TRUE, currentTime |-> 0]
    /\ currentTime = 0
    /\ playbackRate = Num(1000)
    /\ currentSubtitleTrackId = defaultTrack(cfg.modal)
    /\ subtitleCues = cuesFor(defaultTrack(cfg.modal))
    /\ activeSubtitle = Empty
    /\ loads = {}
    /\ saveTimer = [active |-> TRUE, episodeIndex |-> 0]
    /\ trace = <<"pause", "fetch", "ok", "seek0", "play">>
    /\ inflight = {}
    /\ progressTable = {}
    /\ localStorage = << >>
    /\ console = <<>>
    /\ unhandled = <<>>
    /\ ev = <<"init">>
    /\ ret = [rejected |-> FALSE, value |-> Num(0)]
    /\ written = << >>
    /\ vtt = NoParse
    /\ advanceTimers = 0
    /\ NoLogin
    /\ supabase = NoAuth

NextSubs ==
    \/ updateProgress /\ ev' = <<"timeupdate">>
    \/ \E id \in {NoTrack, "en", "es"} :
          handleSubtitleTrackChange(id) /\ ev' = <<"trackchange", currentSubtitleTrackId # id>>
    \/ \E t \in Positions : handleSeek(t) /\ ev' = <<"seek">>

SpecSubs == InitSubs /\ [][NextSubs]_vars

\* The cues of a list that contain time t, by index.
Containing(cues, t) ==
    {i \in 1..Len(cues) :
        /\ ~cues[i].start.nan /\ ~cues[i].end.nan
        /\ cues[i].start.v <= t /\ t <= cues[i].end.v}

\* C1: after a timeupdate the caption is the text of the first cue, in
\* document order, whose [start, end] contains the playback time (bounds
\* included), and empty when no cue contains it.
C1_ActiveCue ==
    ev[1] = "timeupdate" =>
        LET S == Containing(subtitleCues, video.currentTime)
        IN  IF S = {} THEN activeSubtitle = Empty
            ELSE \E i \in S : /\ \A j \in S : i <= j
                               /\ activeSubtitle = subtitleCues[i].text

\* Two overlapping cues contain the time and the first one is shown.
C1_Witness ==
    /\ ev[1] = "timeupdate"
    /\ Cardinality(Containing(subtitleCues, video.currentTime)) >= 2
    /\ activeSubtitle = <<"A">>
    /\ video.currentTime = PosStep

\* C5: a three-block document whose second block has a non-numeric
\* timestamp, between two well-formed blocks, parses to exactly two cues.
C5_MalformedSkipped ==
    (/\ currentSubtitleTrackId = "en"
     /\ Len(tracks.en) = 3
     /\ tracks.en[1] \in WellFormedIds
     /\ tracks.en[2] \in MalformedIds
     /\ tracks.en[3] \in WellFormedIds)
        => Len(subtitleCues) = 2

\* C6: right after another track (or none) is selected, no caption is shown.
C6_TrackSwitchClears ==
    (ev[1] = "trackchange" /\ ev[2]) => Displayed = Empty

(***************************************************************************)
(* The player                                                              *)
(***************************************************************************)
\* components/VideoModal.tsx keeps progress in localStorage under its own key.
localProgressKey(animeId, episodeIndex) == <<"animind_progress", animeId, episodeIndex>>

isLocal == cfg.modal = "VideoModal"
isMock == ~isLocal /\ usesLocalMock(cfg.db, cfg.userId)
isBackend == ~isLocal /\ ~isMock

\* The builds of the player: which modal with which dbService, for which user,
\* and how localStorage behaves where progress is kept in it.  A modal that
\* reads localStorage unguarded when it mounts is not opened without access.
Configs ==
    {c \in [modal : Modals, db : Dbs, userId : UserIds] :
        /\ c.modal = "VideoModal" => (c.db = "dbService" /\ c.userId = "u1")
        /\ c.db = "part_008" => c.userId = "u1"}

StorageModes(c) ==
    IF c.modal = "VideoModal" THEN {"ok", "full"}
    ELSE IF usesLocalMock(c.db, c.userId)
    THEN (IF c.modal = "part_003" THEN {"ok", "full", "denied"} ELSE {"ok", "full"})
    ELSE {"ok"}

Init ==
    /\ cfg \in Configs
    /\ storage \in StorageModes(cfg)
    /\ tracks = [en |-> <<"A", "D">>, es |-> EsBlocks]
    /\ Idle

\* The stored position of an episode as the restore effect of
\* components/VideoModal.tsx reads it.
localSaved(ls, episodeIndex) ==
    LET key == localProgressKey(AnimeId, episodeIndex)
    IN  IF key \in DOMAIN ls /\ ls[key] # <<>> THEN parseFloat(ls[key]).v ELSE 0

\* The position the load seeks to: the stored one if positive, else 0.
seekTarget(timestamp) == IF Gt(timestamp, Num(0)) THEN timestamp.v ELSE 0
seekEvent(t) == IF t = 0 THEN "seek0" ELSE "seek+"

\* play() on an element that is already playing resolves.
playResolves(v, playOk) == ~v.paused \/ playOk

\* A cleanup that leaves the closures of the waiting loads as they are.
cancelLoads_none(ls) == ls

\* isMounted = false in the closure of every load still waiting.
cancelLoads(ls) == {[l EXCEPT !.isMounted = FALSE] : l \in ls}

\* The load effect, run for episode `episodeIndex` after the handler left
\* isPlaying at `playing0`.  It reads the stores as the cleanup left them.
loadProgress(episodeIndex, playing0, playOk) ==
    IF isLocal
    THEN LET t == localSaved(localStorage', episodeIndex)
             ok == playResolves(video, playOk)
         IN  /\ video' = [paused |-> ~ok, currentTime |-> t]
             /\ currentTime' = t
             /\ isPlaying' = ok
             /\ loads' = cancelLoads(loads)
             /\ trace' = <<"fetch", "ok", seekEvent(t), "play">>
    ELSE IF isMock
    THEN LET r == getProgressIn(localStorage', progressTable, cfg.userId, AnimeId,
                                episodeIndex, "ok")
             t == seekTarget(r.value)
         IN  IF r.rejected
             THEN /\ video' = IF cfg.modal = "part_003"
                              THEN [paused |-> TRUE, currentTime |-> 0]
                              ELSE [video EXCEPT !.paused = TRUE]
                  /\ currentTime' = currentTime
                  /\ isPlaying' = playing0
                  /\ loads' = cancelLoads(loads)
                  /\ trace' = IF cfg.modal = "part_003"
                              THEN <<"pause", "fetch", "failed", "seek0">>
                              ELSE <<"pause", "fetch", "failed">>
             ELSE /\ video' = [paused |-> ~playOk, currentTime |-> t]
                  /\ currentTime' = t
                  /\ isPlaying' = playOk
                  /\ loads' = cancelLoads(loads)
                  /\ trace' = <<"pause", "fetch", "ok", seekEvent(t), "play">>
    ELSE LET l == [episodeIndex |-> episodeIndex, isMounted |-> TRUE]
         IN  /\ Cardinality(cancelLoads(loads) \cup {l}) <= MaxLoads
             /\ video' = [video EXCEPT !.paused = TRUE]
             /\ currentTime' = currentTime
             /\ isPlaying' = playing0
             /\ loads' = cancelLoads(loads) \cup {l}
             /\ trace' = <<"pause", "fetch">>

loadLogs == IF isMock /\ storage = "denied" /\ cfg.modal = "part_003"
            THEN <<"Failed to load progress:">> ELSE <<>>
loadUnhandled == IF isMock /\ storage = "denied" /\ cfg.modal # "part_003"
                 THEN <<"unhandled rejection: loadProgress">> ELSE <<>>

\* An interval left running by the cleanup: the one set first keeps firing
\* with the episode of its closure; C20 must tell it from setInterval.
setInterval_keepsOld(episodeIndex) ==
    IF saveTimer.active THEN saveTimer
    ELSE [active |-> TRUE, episodeIndex |-> episodeIndex]

\* setInterval(save, 5000) in the save effect, after the cleanup of the effect
\* before it has cleared its own: the one interval, with the episode of its closure.
setInterval(episodeIndex) == [active |-> TRUE, episodeIndex |-> episodeIndex]

\* A forced save that reads the position after the next load has reset it;
\* C19 must tell it from forcedSave.
forcedSave_afterLoad(episodeIndex) ==
    Request(cfg.userId, AnimeId, episodeIndex, Num(0), "cleanup")

\* The save the cleanup of the save effect makes for the episode of its closure.
forcedSave(episodeIndex) ==
    Request(cfg.userId, AnimeId, episodeIndex, Num(video.currentTime), "cleanup")

\* The save the interval makes.
intervalSave(episodeIndex) ==
    Request(cfg.userId, AnimeId, episodeIndex, Num(video.currentTime), "interval")

\* A save by the modal: to localStorage in components/VideoModal.tsx, through
\* dbService in the others.
modalSave(m) ==
    IF isLocal
    THEN /\ inflight' = inflight
         /\ localStorage' =
                IF storage # "ok" THEN localStorage
                ELSE setItem(localStorage, localProgressKey(m.anime_id, m.episode_index),
                             toString(m.timestamp))
    ELSE issueSave(m)

modalSaveThrows == isLocal /\ storage # "ok"
modalSaveLogs(m) == IF isLocal THEN <<>> ELSE issueLogs(m)
modalSaveUnhandled(m) ==
    IF isLocal THEN (IF storage # "ok" THEN <<"exception: localStorage.setItem">> ELSE <<>>)
    ELSE issueUnhandled(m)

\* The cleanup of the save effect: the interval is cleared by the caller, the
\* forced save is made when videoRef.current is still set.
saveCleanup(episodeIndex, refAttached) ==
    IF refAttached THEN modalSave(forcedSave(episodeIndex))
    ELSE UNCHANGED <<inflight, localStorage>>

cleanupLogs(episodeIndex, refAttached) ==
    IF refAttached THEN modalSaveLogs(forcedSave(episodeIndex)) ELSE <<>>
cleanupUnhandled(episodeIndex, refAttached) ==
    IF refAttached THEN modalSaveUnhandled(forcedSave(episodeIndex)) ELSE <<>>

\* The persistence effect at mount: the remembered subtitle track.
savedTrack ==
    LET key == subtitlePrefKey
        saved == IF storage # "denied" /\ key \in DOMAIN localStorage
                 THEN localStorage[key] ELSE NoTrack
    IN  IF isLocal
        THEN (IF saved \in DOMAIN tracks THEN saved ELSE defaultTrack(cfg.modal))
        ELSE IF saved = "off" THEN NoTrack
        ELSE IF saved \in DOMAIN tracks THEN saved
        ELSE defaultTrack(cfg.modal)

\* The keys under which the speed and the volume are remembered.
STORAGE_KEY_SPEED == <<"animind_playback_speed">>
STORAGE_KEY_VOLUME == <<"animind_volume">>

\* The persistence effect at mount, volume: part_003 reads through
\* safeLocalStorage and takes a number in [0, 1] only; the other versions
\* read localStorage itself (an exception when access is denied) and hand
\* whatever parseFloat gives to setVolume and to the element, whose volume
\* setter throws on a value that is not a number in [0, 1].
loadVolume ==
    LET present == storage # "denied" /\ STORAGE_KEY_VOLUME \in DOMAIN localStorage
        volValue == IF present THEN parseFloat(localStorage[STORAGE_KEY_VOLUME]) ELSE NaN
        valid == ~volValue.nan /\ Geq(volValue, Num(0)) /\ Leq(volValue, Num(1000))
    IN  [threw |-> cfg.modal # "part_003" /\ (storage = "denied" \/ (present /\ ~valid)),
         volume |-> IF ~present THEN Num(1000)
                    ELSE IF cfg.modal = "part_003" /\ ~valid THEN Num(1000)
                    ELSE volValue]

\* The persistence effect at mount, speed, reached when the volume part did
\* not throw: part_003 takes a number in (0, 2] only; part_004 hands whatever
\* parseFloat gives to setPlaybackRate and to the element, whose playbackRate
\* setter throws on NaN; components/VideoModal.tsx remembers no speed.
loadSpeed ==
    LET present == /\ ~isLocal /\ ~loadVolume.threw /\ storage # "denied"
                   /\ STORAGE_KEY_SPEED \in DOMAIN localStorage
        speedValue == IF present THEN parseFloat(localStorage[STORAGE_KEY_SPEED]) ELSE NaN
        valid == ~speedValue.nan /\ Gt(speedValue, Num(0)) /\ Leq(speedValue, Num(2000))
    IN  [threw |-> cfg.modal = "part_004" /\ present /\ speedValue.nan,
         playbackRate |-> IF ~present THEN Num(1000)
                          ELSE IF cfg.modal = "part_003" /\ ~valid THEN Num(1000)
                          ELSE speedValue]

\* What the effect leaves: the volume and the speed of the player, and
\* whether it threw.
persistenceInit ==
    [volume |-> loadVolume.volume, playbackRate |-> loadSpeed.playbackRate,
     raised |-> loadVolume.threw \/ loadSpeed.threw]

savedSpeed == loadSpeed.playbackRate

\* The component is gone: its state is dropped, its loads are cancelled.
Unmounted ==
    /\ mounted' = FALSE
    /\ currentEpisodeIndex' = 0
    /\ isPlaying' = FALSE
    /\ video' = [paused |-> TRUE, currentTime |-> 0]
    /\ currentTime' = 0
    /\ playbackRate' = Num(1000)
    /\ currentSubtitleTrackId' = NoTrack
    /\ subtitleCues' = <<>>
    /\ activeSubtitle' = Empty
    /\ loads' = cancelLoads(loads)
    /\ saveTimer' = [active |-> FALSE, episodeIndex |-> 0]
    /\ trace' = <<>>

\* The modal is rendered: the mount effects run for episode 0.
Open(playOk) ==
    /\ ~mounted
    /\ mounted' = TRUE
    /\ currentEpisodeIndex' = 0
    /\ currentSubtitleTrackId' = savedTrack
    /\ subtitleCues' = cuesFor(savedTrack)
    /\ activeSubtitle' = Empty
    /\ UNCHANGED <<inflight, localStorage>>
    /\ loadProgress(0, FALSE, playOk)
    /\ saveTimer' = setInterval(0)
    /\ playbackRate' = savedSpeed
    /\ console' = loadLogs
    /\ unhandled' = loadUnhandled
    /\ UNCHANGED <<configVars, vtt, advanceTimers, loginVars, supabase, progressTable, ret, written>>

\* setCurrentEpisodeIndex(idx) with idx another episode: the effects keyed on
\* the episode are cleaned up (the save effect with the episode of its closure)
\* and run again.  An exception thrown by a cleanup takes the tree down.
switchEpisode(idx, playing0, playOk) ==
    /\ mounted
    /\ idx \in Episodes
    /\ idx # currentEpisodeIndex
    /\ saveCleanup(saveTimer.episodeIndex, TRUE)
    /\ IF modalSaveThrows
       THEN /\ Unmounted
            /\ console' = <<>>
            /\ unhandled' = cleanupUnhandled(saveTimer.episodeIndex, TRUE)
       ELSE /\ currentEpisodeIndex' = idx
            /\ loadProgress(idx, playing0, playOk)
            /\ saveTimer' = setInterval(idx)
            /\ console' = cleanupLogs(saveTimer.episodeIndex, TRUE) \o loadLogs
            /\ unhandled' = cleanupUnhandled(saveTimer.episodeIndex, TRUE) \o loadUnhandled
            /\ UNCHANGED <<mounted, playbackRate, subtitleVars>>
    /\ UNCHANGED <<configVars, vtt, advanceTimers, loginVars, supabase, progressTable, ret, written>>

\* An entry of the episode list is clicked.
handleEpisodeClick(idx, playOk) ==
    IF idx = currentEpisodeIndex
    THEN /\ mounted
         /\ isPlaying' = FALSE
         /\ console' = <<>>
         /\ unhandled' = <<>>
         /\ UNCHANGED <<configVars, vtt, advanceTimers, loginVars, supabase, playbackRate, mounted, currentEpisodeIndex, video, currentTime,
                        loads, saveTimer, trace, subtitleVars, inflight, progressTable,
                        localStorage, ret, written>>
    ELSE switchEpisode(idx, FALSE, playOk)

\* The next / previous buttons.  components/VideoModal.tsx goes through
\* handleEpisodeClick; the others only set the index.
handleNextEpisode(playOk) ==
    /\ mounted
    /\ currentEpisodeIndex < NumEpisodes - 1
    /\ switchEpisode(currentEpisodeIndex + 1, IF isLocal THEN FALSE ELSE isPlaying, playOk)

handlePrevEpisode(playOk) ==
    /\ mounted
    /\ currentEpisodeIndex > 0
    /\ switchEpisode(currentEpisodeIndex - 1, IF isLocal THEN FALSE ELSE isPlaying, playOk)

\* A tick that saves whether the video plays or not; C17 must tell it from
\* savesOnTick.
savesOnTick_alsoPaused(v) == TRUE

\* videoRef.current && !videoRef.current.paused, the condition of `save`.
savesOnTick(v) == ~v.paused

\* The interval of the save effect fires: a save if the video plays, nothing
\* otherwise.
save ==
    /\ mounted
    /\ saveTimer.active
    /\ IF savesOnTick(video)
       THEN /\ modalSave(intervalSave(saveTimer.episodeIndex))
            /\ console' = modalSaveLogs(intervalSave(saveTimer.episodeIndex))
            /\ unhandled' = modalSaveUnhandled(intervalSave(saveTimer.episodeIndex))
       ELSE /\ UNCHANGED <<inflight, localStorage>>
            /\ console' = <<>>
            /\ unhandled' = <<>>
    /\ UNCHANGED <<configVars, vtt, advanceTimers, loginVars, supabase, playbackRate, playerVars, subtitleVars, progressTable, ret, written>>

\* The backend answers a getProgress call; loadProgress continues.
LoadDone(l, outcome, playOk) ==
    /\ l \in loads
    /\ loads' = loads \ {l}
    /\ IF l.isMounted /\ mounted
       THEN LET r == getProgress(cfg.userId, AnimeId, l.episodeIndex, outcome)
                t == seekTarget(r.value)
                ok == playResolves(video, playOk)
            IN  /\ video' = [paused |-> ~ok, currentTime |-> t]
                /\ currentTime' = t
                /\ isPlaying' = ok
                /\ trace' = trace \o <<IF outcome = "ok" THEN "ok" ELSE "failed",
                                       seekEvent(t), "play">>
       ELSE UNCHANGED <<video, currentTime, isPlaying, trace>>
    /\ console' = <<>>
    /\ unhandled' = <<>>
    /\ UNCHANGED <<configVars, vtt, advanceTimers, loginVars, supabase, playbackRate, mounted, currentEpisodeIndex, saveTimer, subtitleVars,
                   inflight, progressTable, localStorage, ret, written>>

togglePlay(playOk) ==
    /\ mounted
    /\ isPlaying' = ~isPlaying
    /\ IF isPlaying
       THEN /\ video' = [video EXCEPT !.paused = TRUE]
            /\ console' = <<>>
            /\ unhandled' = <<>>
       ELSE LET ok == playResolves(video, playOk)
            IN  /\ video' = [video EXCEPT !.paused = ~ok]
                /\ console' = IF ~ok /\ cfg.modal = "part_003"
                              THEN <<"Playback failed:">> ELSE <<>>
                /\ unhandled' = IF ~ok /\ cfg.modal # "part_003"
                                THEN <<"unhandled rejection: play">> ELSE <<>>
    /\ UNCHANGED <<configVars, vtt, advanceTimers, loginVars, supabase, playbackRate, mounted, currentEpisodeIndex, currentTime, loads,
                   saveTimer, trace, subtitleVars, inflight, progressTable,
                   localStorage, ret, written>>

\* The media element plays on.
playback ==
    /\ mounted
    /\ ~video.paused
    /\ video.currentTime < MaxPos * PosStep
    /\ video' = [video EXCEPT !.currentTime = @ + PosStep]
    /\ console' = <<>>
    /\ unhandled' = <<>>
    /\ UNCHANGED <<configVars, vtt, advanceTimers, loginVars, supabase, playbackRate, mounted, currentEpisodeIndex, isPlaying, currentTime,
                   loads, saveTimer, trace, subtitleVars, inflight, progressTable,
                   localStorage, ret, written>>

\* onClose: the modal unmounts.  The cleanup of the save effect runs with
\* videoRef.current either still set or already cleared by the renderer.
Close(refAttached) ==
    /\ mounted
    /\ saveCleanup(saveTimer.episodeIndex, refAttached)
    /\ Unmounted
    /\ console' = cleanupLogs(saveTimer.episodeIndex, refAttached)
    /\ unhandled' = cleanupUnhandled(saveTimer.episodeIndex, refAttached)
    /\ UNCHANGED <<configVars, vtt, advanceTimers, loginVars, supabase, progressTable, ret, written>>

Next ==
    \/ \E playOk \in BOOLEAN : Open(playOk) /\ UNCHANGED ev
    \/ \E idx \in Episodes, playOk \in BOOLEAN :
          handleEpisodeClick(idx, playOk) /\ UNCHANGED ev
    \/ \E playOk \in BOOLEAN : handleNextEpisode(playOk) /\ UNCHANGED ev
    \/ \E playOk \in BOOLEAN : handlePrevEpisode(playOk) /\ UNCHANGED ev
    \/ save /\ UNCHANGED ev
    \/ \E m \in inflight, o \in Outcomes : SaveDone(m, o) /\ UNCHANGED <<ev, written>>
    \/ \E l \in loads, o \in Outcomes, playOk \in BOOLEAN :
          LoadDone(l, o, playOk) /\ UNCHANGED ev
    \/ \E playOk \in BOOLEAN : togglePlay(playOk) /\ UNCHANGED ev
    \/ playback /\ UNCHANGED ev
    \/ \E t \in Positions : handleSeek(t) /\ UNCHANGED ev
    \/ \E refAttached \in BOOLEAN : Close(refAttached) /\ UNCHANGED ev

Spec == Init /\ [][Next]_vars

\* Progress keys of localStorage whose value a step has set or changed.
ProgressKeysWritten ==
    {k \in DOMAIN localStorage' :
        /\ k[1] \in {"animind_progress", "animind_dev_progress"}
        /\ (k \notin DOMAIN localStorage \/ localStorage'[k] # localStorage[k])}

\* C2: every save the player starts carries the user, the title and the
\* episode that were current when it was started, and what a save writes when
\* it completes is the row of a save in flight, with the key it was started
\* with, whatever the episode current at that moment; a write to localStorage
\* goes to the key of the episode current when the step began.
C2_KeyBinding ==
    [][/\ \A m \in inflight' \ inflight :
              /\ m.user_id = cfg.userId
              /\ m.anime_id = AnimeId
              /\ m.episode_index = currentEpisodeIndex
       /\ \A r \in progressTable' \ progressTable :
              \E m \in inflight :
                  /\ m \notin inflight'
                  /\ r = [user_id |-> m.user_id, anime_id |-> m.anime_id,
                          episode_index |-> m.episode_index, timestamp |-> m.timestamp]
       /\ \A k \in ProgressKeysWritten :
              k[2] = AnimeId /\ k[3] = currentEpisodeIndex]_vars

\* A save for the previous episode is still in flight after the switch while
\* nothing is stored yet for the episode now current.
C2_Witness ==
    /\ mounted
    /\ \E m \in inflight : m.episode_index # currentEpisodeIndex /\ m.timestamp.v > 0
    /\ progressTable = {}

\* A pending save of the previous episode has been written under its own key
\* while the other episode is current.
C2_WitnessWritten ==
    /\ mounted
    /\ inflight = {}
    /\ \E r \in progressTable : r.episode_index # currentEpisodeIndex /\ r.timestamp.v > 0
    /\ \A r \in progressTable : r.episode_index # currentEpisodeIndex

\* The step leaves an episode: the modal closes or another episode is chosen.
ExitStep ==
    mounted /\ (~mounted' \/ currentEpisodeIndex' # currentEpisodeIndex)

\* The step makes a save of the position under the key of the episode left.
ForcedSaveIssued ==
    LET m == forcedSave(currentEpisodeIndex)
        key == IF isLocal THEN localProgressKey(AnimeId, currentEpisodeIndex)
               ELSE progressKey(AnimeId, currentEpisodeIndex)
    IN  IF isBackend THEN m \in inflight'
        ELSE IF storage = "ok"
        THEN key \in DOMAIN localStorage' /\ localStorage'[key] = toString(m.timestamp)
        ELSE console' # <<>> \/ unhandled' # <<>>

\* C3: every step that leaves an episode (close, episode switch) makes a save
\* of the current position under the key of the episode left.
C3_ForcedSaveOnExit == [][ExitStep => ForcedSaveIssued]_vars

\* The step is the failure of a save in flight: it is answered and its row is
\* not in the table.
SaveFailedStep ==
    \E m \in inflight : inflight' = inflight \ {m} /\ Row(m) \notin progressTable'

\* C8: when a save fails the failure is logged, nothing is left unhandled
\* and the player state is as before.
C8_FailedWriteContained ==
    [][SaveFailedStep =>
          /\ console' # <<>>
          /\ unhandled' = <<>>
          /\ UNCHANGED <<mounted, isPlaying, video, currentEpisodeIndex>>]_vars

\* C9: when the fetch of the stored position has failed for the current
\* target, the load has gone on to seek to 0 and to start playback.
C9_FailedReadFallsBack ==
    (mounted /\ \E i \in 1..Len(trace) : trace[i] = "failed") =>
        \E p \in {<<>>, <<"pause">>} : trace = p \o <<"fetch", "failed", "seek0", "play">>

LoadSequences ==
    {<<"pause", "fetch", o, k, "play">> : o \in {"ok", "failed"}, k \in {"seek0", "seek+"}}

IsPrefix(a, b) == Len(a) <= Len(b) /\ a = SubSeq(b, 1, Len(a))

\* C10: what the load of the current target has done so far is a beginning
\* of: pause, fetch, seek, play.
C10_LoadSequence ==
    mounted => \E q \in LoadSequences : IsPrefix(trace, q)

(***************************************************************************)
(* Progress keys: saves and loads made for any signed-in user, through     *)
(* dbService or through the localStorage keys of components/VideoModal.tsx *)
(***************************************************************************)
KeyTimestamps == {PosStep, 47300}

InitKeys ==
    /\ cfg \in {c \in [modal : {"none", "VideoModal"}, db : Dbs, userId : {"none"}] :
                   c.modal = "VideoModal" => c.db = "dbService"}
    /\ storage \in (IF cfg.modal = "VideoModal" THEN {"ok", "full"}
                    ELSE IF cfg.db = "dbService" THEN {"ok", "full", "denied"}
                    ELSE {"ok"})
    /\ tracks = << >>
    /\ Idle

\* The position a load for (userId, episodeIndex) applies in the current state.
Loaded(userId, episodeIndex) ==
    IF isLocal THEN Num(localSaved(localStorage, episodeIndex))
    ELSE LET r == getProgress(userId, AnimeId, episodeIndex, "ok")
         IN  IF r.rejected THEN Num(0) ELSE r.value

\* A save of position t made while userId is signed in.
KeySave(userId, episodeIndex, t) ==
    LET m == Request(userId, AnimeId, episodeIndex, Num(t), "api")
    IN  /\ modalSave(m)
        /\ ev' = <<"save", userId, episodeIndex>>
        /\ console' = <<>>
        /\ unhandled' = <<>>
        /\ UNCHANGED <<configVars, vtt, advanceTimers, loginVars, supabase, playbackRate, playerVars, subtitleVars, progressTable, ret, written>>

KeySaveDone(m, outcome) ==
    /\ SaveDone(m, outcome)
    /\ ev' = <<"saveDone", m.user_id, m.episode_index>>
    /\ written' = written

KeyLoad(userId, episodeIndex) ==
    /\ ret' = [rejected |-> FALSE, value |-> Loaded(userId, episodeIndex)]
    /\ ev' = <<"load", userId, episodeIndex>>
    /\ console' = <<>>
    /\ unhandled' = <<>>
    /\ UNCHANGED <<configVars, vtt, advanceTimers, loginVars, supabase, playbackRate, playerVars, subtitleVars, inflight, progressTable,
                   localStorage, written>>

NextKeys ==
    \/ \E u \in UserIds, e \in Episodes, t \in KeyTimestamps : KeySave(u, e, t)
    \/ \E m \in inflight, o \in Outcomes : KeySaveDone(m, o)
    \/ \E u \in UserIds, e \in Episodes : KeyLoad(u, e)

SpecKeys == InitKeys /\ [][NextKeys]_vars

\* The step is a save, or the completion of one, for a key other than
\* (userId, episodeIndex).
SaveForOtherKey(userId, episodeIndex) ==
    /\ ev'[1] \in {"save", "saveDone"}
    /\ <<ev'[2], ev'[3]>> # <<userId, episodeIndex>>

\* C11: a save for one (user, title, episode) never changes the position a
\* load returns for another user or another episode.
C11_KeyIsolation ==
    [][\A u \in UserIds, e \in Episodes :
          SaveForOtherKey(u, e) => Loaded(u, e)' = Loaded(u, e)]_vars

(***************************************************************************)
(* Parsing and lookup against the cues the blocks declare                  *)
(***************************************************************************)
\* What each well-formed block declares: start and end in milliseconds, text.
BlockCue(b) ==
    CASE b = "A" -> [start |-> Num(1000), end |-> Num(5000), text |-> <<"A">>]
      [] b = "B" -> [start |-> Num(2000), end |-> Num(6000), text |-> <<"B">>]
      [] b = "D" -> [start |-> Num(2500), end |-> Num(3000), text |-> <<"D", "\n", "E">>]
      [] b = "Num" -> [start |-> Num(0), end |-> Num(1500), text |-> <<"F">>]

\* The cues a document of such blocks declares, in document order.
DeclaredCues(bs) == [i \in 1..Len(bs) |-> BlockCue(bs[i])]

AllIn(bs, ids) == \A i \in 1..Len(bs) : bs[i] \in ids

\* The English track is selected and holds well-formed blocks only.
WellFormedEn == currentSubtitleTrackId = "en" /\ AllIn(tracks.en, WellFormedIds)

\* C12 as amended: for a document of well-formed blocks, after a timeupdate
\* the caption is the text of the first declared cue, in document order,
\* whose [start, end] contains the time, and empty when the time is outside
\* every declared cue.
C12_ParseThenLookup ==
    (ev[1] = "timeupdate" /\ WellFormedEn) =>
        LET E == DeclaredCues(tracks.en)
            F == {i \in 1..Len(E) : E[i].start.v <= video.currentTime
                                     /\ video.currentTime <= E[i].end.v}
        IN  IF F = {} THEN activeSubtitle = Empty
            ELSE \E i \in F : (\A j \in F : i <= j) /\ activeSubtitle = E[i].text

\* A three-block document: the time lies strictly inside the first cue, which
\* the later ones overlap, and the first is shown.
C12_Witness ==
    /\ ev[1] = "timeupdate" /\ WellFormedEn
    /\ tracks.en = <<"B", "A", "D">>
    /\ video.currentTime = PosStep
    /\ activeSubtitle = <<"B">>

\* C12 as written: a time strictly inside a cue's [start, end] shows that
\* cue's text, whichever other cues contain it; a time outside every cue
\* shows nothing.
C12_AsWritten ==
    (ev[1] = "timeupdate" /\ WellFormedEn) =>
        LET E == DeclaredCues(tracks.en)
            t == video.currentTime
        IN  /\ \A i \in 1..Len(E) :
                  (E[i].start.v < t /\ t < E[i].end.v) => activeSubtitle = E[i].text
            /\ (\A i \in 1..Len(E) : t < E[i].start.v \/ E[i].end.v < t)
                  => activeSubtitle = Empty

\* C13: a document of N well-formed blocks, some preceded by a cue-number
\* line, after the header line, parses to the N declared cues in document
\* order, overlapping and repeated ones included.
C13_ParseCountAndOrder ==
    (currentSubtitleTrackId = "en" /\ AllIn(tracks.en, WellFormedIds \cup {"Num"}))
        => subtitleCues = DeclaredCues(tracks.en)

\* Three cues from three blocks: two that overlap and a numbered one.
C13_Witness ==
    /\ ev[1] = "trackchange"
    /\ currentSubtitleTrackId = "en"
    /\ tracks.en = <<"B", "Num", "A">>
    /\ Len(subtitleCues) = 3
    /\ subtitleCues[1].text = <<"B">> /\ subtitleCues[3].text = <<"A">>

\* C14: every cue of the parsed list has a numeric start >= 0 and an end
\* greater than its start.
C14_CuesWellFormed ==
    \A i \in 1..Len(subtitleCues) :
        /\ ~subtitleCues[i].start.nan
        /\ ~subtitleCues[i].end.nan
        /\ subtitleCues[i].start.v >= 0
        /\ subtitleCues[i].end.v > subtitleCues[i].start.v

LoadPending == \E l \in loads : l.isMounted

\* The saves the interval callback starts in a step.
IntervalSavesIssued == {m \in inflight' \ inflight : m.caller = "interval"}

\* C15: no timer-triggered save is made for the current episode while the
\* load of that episode has not completed.
C15_LoadBeforeSaveTimer ==
    [][IntervalSavesIssued # {} => ~LoadPending]_vars

\* The step switches to another episode and the player stays open.
SwitchStep ==
    mounted /\ mounted' /\ currentEpisodeIndex' # currentEpisodeIndex

\* The step makes a save, under the key of the episode it leaves, of the
\* position the video had when the step began.
SavedOldPosition ==
    LET pos == Num(video.currentTime)
        key == IF isLocal THEN localProgressKey(AnimeId, currentEpisodeIndex)
               ELSE progressKey(AnimeId, currentEpisodeIndex)
    IN  IF isBackend
        THEN \E m \in inflight' :
                 /\ m.caller = "cleanup"
                 /\ m.user_id = cfg.userId
                 /\ m.episode_index = currentEpisodeIndex
                 /\ m.timestamp = pos
        ELSE IF storage = "ok"
        THEN key \in DOMAIN localStorage' /\ localStorage'[key] = toString(pos)
        ELSE console' # <<>> \/ unhandled' # <<>>

\* C19: on a switch from one episode to another the forced save carries the
\* position of the episode left, as it was before the load for the new
\* episode moved the video or the displayed time.
C19_ForcedSaveBeforeLoad == [][SwitchStep => SavedOldPosition]_vars

\* Episode 1 is current and its load has moved the video to 0, while the
\* forced save of episode 0 carries the position reached there.
C19_Witness ==
    /\ mounted /\ currentEpisodeIndex = 1
    /\ Len(trace) = 5
    /\ video.currentTime = 0 /\ currentTime = 0
    /\ \E m \in inflight :
           m.caller = "cleanup" /\ m.episode_index = 0 /\ m.timestamp = Num(PosStep)

\* C20: while the player is open exactly the interval of the current episode
\* is active, after it is closed none is, and every timer-triggered save is
\* made with the player open, for the episode current at that moment.
C20_TimerCancellation ==
    [][/\ mounted' => (saveTimer'.active /\ saveTimer'.episodeIndex = currentEpisodeIndex')
       /\ ~mounted' => ~saveTimer'.active
       /\ \A m \in IntervalSavesIssued : mounted /\ m.episode_index = currentEpisodeIndex
       /\ \A k \in ProgressKeysWritten : mounted /\ k[3] = currentEpisodeIndex]_vars

\* The player was switched to episode 1, its timer made a save, and the
\* player is closed: no interval is left.
C20_Witness ==
    /\ ~mounted
    /\ ~saveTimer.active
    /\ \E m \in inflight : m.caller = "interval" /\ m.episode_index = 1

(***************************************************************************)
(* One session of the player with its controls: the speed menu, the volume *)
(* slider and the subtitle menu next to the episode list and the timers.   *)
(***************************************************************************)

Rates == {Num(1000), Num(2000)}
Volumes == {Num(500)}

\* The speed menu.  In part_003 the load effect lists playbackRate among its
\* dependencies: a speed other than the current one cleans it up and runs it
\* again for the same episode; the save effect is left alone.
handleSpeedChange(rate, playOk) ==
    /\ mounted
    /\ playbackRate' = rate
    /\ localStorage' = IF isLocal \/ storage # "ok" THEN localStorage
                       ELSE setItem(localStorage, STORAGE_KEY_SPEED, toString(rate))
    /\ IF cfg.modal = "part_003" /\ rate # playbackRate
       THEN /\ loadProgress(currentEpisodeIndex, isPlaying, playOk)
            /\ console' = loadLogs
            /\ unhandled' = loadUnhandled
       ELSE /\ UNCHANGED <<video, currentTime, isPlaying, loads, trace>>
            /\ console' = <<>>
            /\ unhandled' = IF cfg.modal = "part_004" /\ storage # "ok"
                            THEN <<"exception: localStorage.setItem">> ELSE <<>>
    /\ UNCHANGED <<configVars, vtt, advanceTimers, loginVars, supabase, mounted, currentEpisodeIndex, saveTimer, subtitleVars,
                   inflight, progressTable, ret, written>>

\* The volume slider: the element's volume and the remembered one.
handleVolumeChange(val) ==
    /\ mounted
    /\ localStorage' = IF storage # "ok" THEN localStorage
                       ELSE setItem(localStorage, STORAGE_KEY_VOLUME, toString(val))
    /\ console' = <<>>
    /\ unhandled' = IF storage # "ok" /\ cfg.modal # "part_003"
                    THEN <<"exception: localStorage.setItem">> ELSE <<>>
    /\ UNCHANGED <<configVars, vtt, advanceTimers, loginVars, supabase, playerVars, playbackRate, subtitleVars, inflight,
                   progressTable, ret, written>>

\* The player of each version, closed, for a signed-in user whose earlier
\* session left a position stored for the first episode.
InitControls ==
    /\ cfg \in {c \in Configs : c.db = "dbService" /\ c.userId = "u1"}
    /\ storage = "ok"
    /\ tracks = [en |-> <<"A", "D">>, es |-> EsBlocks]
    /\ mounted = FALSE
    /\ currentEpisodeIndex = 0
    /\ isPlaying = FALSE
    /\ video = [paused |-> TRUE, currentTime |-> 0]
    /\ currentTime = 0
    /\ playbackRate = Num(1000)
    /\ currentSubtitleTrackId = NoTrack
    /\ subtitleCues = <<>>
    /\ activeSubtitle = Empty
    /\ loads = {}
    /\ saveTimer = [active |-> FALSE, episodeIndex |-> 0]
    /\ trace = <<>>
    /\ inflight = {}
    /\ console = <<>>
    /\ unhandled = <<>>
    /\ ev = <<"init">>
    /\ ret = [rejected |-> FALSE, value |-> Num(0)]
    /\ written = << >>
    /\ vtt = NoParse
    /\ advanceTimers = 0
    /\ NoLogin
    /\ supabase = NoAuth
    /\ progressTable =
          IF isLocal THEN {}
          ELSE {Row(Request(cfg.userId, AnimeId, 0, Num(PosStep), "interval"))}
    /\ localStorage =
          IF isLocal
          THEN setItem(<< >>, localProgressKey(AnimeId, 0), toString(Num(PosStep)))
          ELSE << >>

NextControls ==
    \/ \E playOk \in BOOLEAN : Open(playOk) /\ ev' = <<"open">>
    \/ \E playOk \in BOOLEAN : togglePlay(playOk) /\ ev' = <<"play">>
    \/ playback /\ ev' = <<"play">>
    \/ \E l \in loads, o \in Outcomes, playOk \in BOOLEAN :
          LoadDone(l, o, playOk) /\ ev' = <<"done">>
    \/ \E rate \in Rates, playOk \in BOOLEAN :
          handleSpeedChange(rate, playOk) /\ ev' = <<"speed">>
    \/ \E val \in Volumes : handleVolumeChange(val) /\ ev' = <<"volume">>
    \/ \E id \in DOMAIN tracks \cup {NoTrack} :
          handleSubtitleTrackChange(id) /\ ev' = <<"track">>

SpecControls == InitControls /\ [][NextControls]_vars

\* The player with its timers only: it is opened, played and paused, the
\* interval fires, the backend answers.
NextTimer ==
    \/ \E playOk \in BOOLEAN : Open(playOk) /\ ev' = <<"open">>
    \/ \E playOk \in BOOLEAN : togglePlay(playOk) /\ ev' = <<"play">>
    \/ playback /\ ev' = <<"play">>
    \/ save /\ ev' = <<"tick", video.paused>>
    \/ \E m \in inflight, o \in Outcomes :
          SaveDone(m, o) /\ ev' = <<"done">> /\ UNCHANGED written
    \/ \E l \in loads, o \in Outcomes, playOk \in BOOLEAN :
          LoadDone(l, o, playOk) /\ ev' = <<"done">>

SpecTimer == Init /\ [][NextTimer]_vars

\* C17: a tick of the save timer that finds the video paused starts no save
\* and leaves the backend table and localStorage as they were.
C17_PausedTickWritesNothing ==
    [][ev' = <<"tick", TRUE>> => UNCHANGED <<inflight, progressTable, localStorage>>]_vars

\* A tick found the video paused at a position other than the one stored for
\* the current episode.
C17_Witness ==
    /\ ev = <<"tick", TRUE>>
    /\ video.currentTime = PosStep
    /\ \E r \in progressTable :
           /\ r.user_id = cfg.userId
           /\ r.episode_index = currentEpisodeIndex
           /\ r.timestamp = Num(0)

\* C18: choosing a speed, a volume or a subtitle track starts no load and
\* leaves the video and the displayed time where they were.
C18_LoadOnlyOnTargetChange ==
    [][ev'[1] \in {"speed", "volume", "track"} =>
          UNCHANGED <<loads, trace, video, currentTime, isPlaying>>]_vars

(***************************************************************************)
(* parseTime on its own: timestamps of two and of three segments           *)
(***************************************************************************)
\* Fields of a timestamp as written, each with the number it denotes (hours
\* and minutes as integers, seconds in milliseconds).
HourFields ==
    {[str |-> <<"0", "0">>, val |-> 0], [str |-> <<"0", "1">>, val |-> 1],
     [str |-> <<"1">>, val |-> 1], [str |-> <<"1", "0">>, val |-> 10]}
MinuteFields ==
    {[str |-> <<"0", "0">>, val |-> 0], [str |-> <<"0", "1">>, val |-> 1],
     [str |-> <<"5">>, val |-> 5], [str |-> <<"5", "9">>, val |-> 59]}
SecondFields ==
    {[str |-> <<"0", "2">>, val |-> 2000],
     [str |-> <<"0", "2", ".", "5", "0", "0">>, val |-> 2500],
     [str |-> <<"2", ".", "5">>, val |-> 2500],
     [str |-> <<"0", ".", "2", "5">>, val |-> 250],
     [str |-> <<"0", "0", ".", "0", "0", "0">>, val |-> 0],
     [str |-> <<"5", "9", ".", "9", "9", "9">>, val |-> 59999]}
NoHour == [str |-> <<>>, val |-> 0]

TimeFields ==
    [segments : {3}, h : HourFields, m : MinuteFields, s : SecondFields]
    \cup [segments : {2}, h : {NoHour}, m : MinuteFields, s : SecondFields]

\* The timestamp as it stands in a timing line.
TimeString(f) ==
    IF f.segments = 3 THEN f.h.str \o Colon \o f.m.str \o Colon \o f.s.str
    ELSE f.m.str \o Colon \o f.s.str

InitTime ==
    /\ cfg \in [modal : Modals, db : {"dbService"}, userId : {"u1"}]
    /\ storage = "ok"
    /\ tracks = << >>
    /\ mounted = FALSE
    /\ currentEpisodeIndex = 0
    /\ isPlaying = FALSE
    /\ video = [paused |-> TRUE, currentTime |-> 0]
    /\ currentTime = 0
    /\ playbackRate = Num(1000)
    /\ currentSubtitleTrackId = NoTrack
    /\ subtitleCues = <<>>
    /\ activeSubtitle = Empty
    /\ loads = {}
    /\ saveTimer = [active |-> FALSE, episodeIndex |-> 0]
    /\ trace = <<>>
    /\ inflight = {}
    /\ progressTable = {}
    /\ localStorage = << >>
    /\ console = <<>>
    /\ unhandled = <<>>
    /\ \E f \in TimeFields : ev = <<"timestamp", f>>
    /\ ret = [rejected |-> FALSE, value |-> Num(0)]
    /\ written = << >>
    /\ vtt = NoParse
    /\ advanceTimers = 0
    /\ NoLogin
    /\ supabase = NoAuth

\* parseTime is called with the timestamp.
CallParseTime ==
    /\ ev[1] = "timestamp"
    /\ ev' = <<"parseTime", ev[2]>>
    /\ ret' = [rejected |-> FALSE, value |-> parseTime(TimeString(ev[2]))]
    /\ UNCHANGED <<configVars, vtt, advanceTimers, loginVars, supabase, playerVars, playbackRate, subtitleVars, inflight,
                   progressTable, localStorage, console, unhandled, written>>

NextTime == CallParseTime

SpecTime == InitTime /\ [][NextTime]_vars

\* C21: parseTime of h:m:s is h*3600 + m*60 + s seconds and of m:s is
\* m*60 + s seconds, fractions of s included; '00:01:02.500' and '01:02.500'
\* both give 62.5 seconds.
C21_TimestampConversion ==
    /\ ev[1] = "parseTime" =>
          ret.value = Num(ev[2].h.val * 3600000 + ev[2].m.val * 60000 + ev[2].s.val)
    /\ parseTime(<<"0", "0", ":", "0", "1", ":", "0", "2", ".", "5", "0", "0">>) = Num(62500)
    /\ parseTime(<<"0", "1", ":", "0", "2", ".", "5", "0", "0">>) = Num(62500)

\* parseTime has been called with '01:01:02.500'.
C21_Witness ==
    /\ ev[1] = "parseTime"
    /\ TimeString(ev[2]) = <<"0", "1", ":", "0", "1", ":", "0", "2", ".", "5", "0", "0">>
    /\ ret.value = Num(3662500)

(***************************************************************************)
(* parseVTT step by step: the outer loop over the lines and the inner loop *)
(* over the lines of a caption                                             *)
(***************************************************************************)
MaxLines == 4

\* Lines a document is made of: two timing lines, a line of text, an empty
\* line and a line of white space.
TimingLine1 == <<"0", ":", "0", "1", " ", "-", "-", ">", " ", "0", ":", "0", "5">>
TimingLine2 == <<"0", ":", "0", "2", " ", "-", "-", ">", " ", "0", ":", "0", "6">>
LineAlphabet == {TimingLine1, TimingLine2, <<"A">>, <<>>, <<" ">>}
LineDocs == UNION {[1..n -> LineAlphabet] : n \in 1..MaxLines}

\* A push that does not look at the text; C22 must tell it from emit.
emit_always(cues, start, end, text) ==
    Append(cues, [start |-> start, end |-> end, text |-> trim(text)])

\* if (text) cues.push({ start, end, text: text.trim() })
emit(cues, start, end, text) ==
    IF text # <<>>
    THEN Append(cues, [start |-> start, end |-> end, text |-> trim(text)])
    ELSE cues

\* A caption that also ends at the next timing line; C30 must tell it from
\* captionContinues.
captionContinues_untilTiming(lines, i) ==
    i <= Len(lines) /\ trim(lines[i]) # <<>> /\ ~includes(trim(lines[i]), Arrow)

\* i < lines.length && lines[i].trim() !== '', the condition of the inner loop
\* (indices from 1 here).
captionContinues(lines, i) == i <= Len(lines) /\ trim(lines[i]) # <<>>

InitParse ==
    /\ cfg \in [modal : {"VideoModal"}, db : {"dbService"}, userId : {"u1"}]
    /\ storage = "ok"
    /\ tracks = << >>
    /\ mounted = FALSE
    /\ currentEpisodeIndex = 0
    /\ isPlaying = FALSE
    /\ video = [paused |-> TRUE, currentTime |-> 0]
    /\ currentTime = 0
    /\ playbackRate = Num(1000)
    /\ currentSubtitleTrackId = NoTrack
    /\ subtitleCues = <<>>
    /\ activeSubtitle = Empty
    /\ loads = {}
    /\ saveTimer = [active |-> FALSE, episodeIndex |-> 0]
    /\ trace = <<>>
    /\ inflight = {}
    /\ progressTable = {}
    /\ localStorage = << >>
    /\ console = <<>>
    /\ unhandled = <<>>
    /\ ev = <<"init">>
    /\ ret = [rejected |-> FALSE, value |-> Num(0)]
    /\ written = << >>
    /\ vtt = NoParse
    /\ advanceTimers = 0
    /\ NoLogin
    /\ supabase = NoAuth

parseFrame == <<configVars, playerVars, playbackRate, subtitleVars, inflight,
                advanceTimers, loginVars, supabase,
                progressTable, localStorage, console, unhandled, ret, written>>

\* parseVTT(content) is entered: content.split('\n'), cues = [], i = 0.
\* `taken` lists the lines the outer loop has read as timing lines.
parseEnter(content) ==
    /\ vtt.pc = "idle"
    /\ vtt' = [pc |-> "outer", lines |-> split(content, NL), i |-> 1, cues |-> <<>>,
               start |-> Num(0), end |-> Num(0), text |-> <<>>, taken |-> <<>>]
    /\ ev' = <<"parseVTT", content>>
    /\ UNCHANGED parseFrame

\* The head of the outer loop: the end of the lines, a timing line, or
\* another line.
outerStep(v) ==
    IF v.i > Len(v.lines) THEN [v EXCEPT !.pc = "done"]
    ELSE LET line == trim(v.lines[v.i])
             fields == split(line, Arrow)
         IN  IF includes(line, Arrow)
             THEN [v EXCEPT !.start = parseTime(trim(fields[1])),
                            !.end = parseTime(trim(fields[2])),
                            !.text = <<>>,
                            !.taken = Append(@, v.i),
                            !.i = @ + 1,
                            !.pc = "inner"]
             ELSE [v EXCEPT !.i = @ + 1]

\* The inner loop: one more line of the caption, or its end and the push.
innerStep(v) ==
    IF captionContinues(v.lines, v.i)
    THEN [v EXCEPT !.text = (IF @ # <<>> THEN @ \o NL ELSE @) \o v.lines[v.i],
                   !.i = @ + 1]
    ELSE [v EXCEPT !.cues = emit(@, v.start, v.end, v.text),
                   !.pc = "outer"]

parseOuter ==
    /\ vtt.pc = "outer"
    /\ vtt' = outerStep(vtt)
    /\ ev' = <<IF vtt.i > Len(vtt.lines) THEN "return" ELSE "parseVTT", ev[2]>>
    /\ UNCHANGED parseFrame

parseInner ==
    /\ vtt.pc = "inner"
    /\ vtt' = innerStep(vtt)
    /\ ev' = ev
    /\ UNCHANGED parseFrame

NextParse ==
    \/ \E d \in LineDocs : parseEnter(JoinLines(d, 1, Len(d) + 1))
    \/ parseOuter
    \/ parseInner

SpecParse == InitParse /\ [][NextParse]_vars

\* The lines of the document, and what a line is.
Timing(lines, k) == includes(trim(lines[k]), Arrow)
Blank(lines, k) == trim(lines[k]) = <<>>

\* Line k belongs to the caption of a timing line above it: it is not blank
\* and the line before it is a timing line or belongs to a caption.
RECURSIVE InCaption(_, _)
InCaption(lines, k) ==
    /\ k > 1
    /\ ~Blank(lines, k)
    /\ (Timing(lines, k - 1) \/ InCaption(lines, k - 1))

\* Timing lines that open a block, and those of them with text under them.
Opening(lines) == {k \in 1..Len(lines) : Timing(lines, k) /\ ~InCaption(lines, k)}
WithText(lines) == {k \in Opening(lines) : k < Len(lines) /\ ~Blank(lines, k + 1)}

\* C22: when parseVTT returns, it has emitted one cue for each timing line
\* that has text under it and none for a timing line followed by a blank line
\* or by the end of the input; every cue has a text that is not empty.
C22_EmptyTextDropped ==
    vtt.pc = "done" =>
        /\ Len(vtt.cues) = Cardinality(WithText(vtt.lines))
        /\ \A c \in 1..Len(vtt.cues) : vtt.cues[c].text # <<>>
        /\ vtt.cues = parseVTT(ev[2])

\* parseVTT has returned for a document with a timing line before a blank
\* line and a timing line with text: one cue.
C22_Witness ==
    /\ vtt.pc = "done"
    /\ vtt.lines = <<TimingLine1, <<" ">>, TimingLine2, <<"A">>>>
    /\ Len(vtt.cues) = 1

\* The loops run on until the call returns: weak fairness of each loop
\* (WF_vars), with the condition under which it is enabled written out.
SpecParseFair ==
    /\ SpecParse
    /\ ([]<>(vtt.pc # "outer") \/ []<><<parseOuter>>_vars)
    /\ ([]<>(vtt.pc # "inner") \/ []<><<parseInner>>_vars)

\* What is left to do: the lines not yet passed, and the place in the loops.
ParseRank(v) ==
    2 * (Len(v.lines) + 1 - v.i)
    + (CASE v.pc = "inner" -> 2 [] v.pc = "outer" -> 1 [] OTHER -> 0)

Increasing(seq) == \A a, b \in 1..Len(seq) : a < b => seq[a] < seq[b]

\* C30: every step of the two loops brings the parse nearer to its end, an
\* iteration of the outer loop and a line of a caption move the index on by
\* one, and a call that was entered returns; it has then read every timing
\* line at most once
\* and emitted at most one cue for each, and a timing line directly under
\* another timing line was not read as one.
C30_ParseTerminates ==
    /\ [][vtt.pc \in {"outer", "inner"} =>
            /\ ParseRank(vtt') < ParseRank(vtt)
            /\ ParseRank(vtt') >= 0
            /\ vtt'.i \in {vtt.i, vtt.i + 1}
            /\ (vtt.pc = "outer" /\ vtt.i <= Len(vtt.lines)) => vtt'.i = vtt.i + 1
            /\ (vtt.pc = "inner" /\ vtt'.pc = "inner") => vtt'.i = vtt.i + 1
            /\ vtt'.pc = "done" =>
                  /\ Len(vtt'.cues) <= Len(vtt'.taken)
                  /\ Increasing(vtt'.taken)
                  /\ \A a \in 1..Len(vtt'.taken) : Timing(vtt'.lines, vtt'.taken[a])
                  /\ \A k \in 2..Len(vtt'.lines) :
                        (Timing(vtt'.lines, k - 1) /\ Timing(vtt'.lines, k)) =>
                            \A a \in 1..Len(vtt'.taken) : vtt'.taken[a] # k]_vars
    /\ (vtt.pc = "outer" ~> vtt.pc = "done")

\* parseVTT has returned for a timing line directly under another: one cue,
\* of the first, with the second as the first line of its text.
C30_Witness ==
    /\ vtt.pc = "done"
    /\ vtt.lines = <<TimingLine1, TimingLine2, <<"A">>>>
    /\ vtt.cues = <<[start |-> Num(1000), end |-> Num(5000),
                     text |-> TimingLine2 \o NL \o <<"A">>]>>

(***************************************************************************)
(* Life of a progress record                                               *)
(***************************************************************************)
\* The keys that hold a stored position: rows of the backend table and
\* progress entries of localStorage.
StoredKeys(tbl, ls) ==
    {<<"row", r.user_id, r.anime_id, r.episode_index>> : r \in tbl}
    \cup {<<"item">> \o k : k \in {j \in DOMAIN ls :
                                    j[1] \in {"animind_progress", "animind_dev_progress"}}}

\* C23: a key that holds a stored position holds one after every step of the
\* player (open, play, pause, seek, switch of episode, close, timer and the
\* answers of the backend): records are overwritten, never removed.
C23_RecordsNeverDeleted ==
    [][StoredKeys(progressTable, localStorage)
          \subseteq StoredKeys(progressTable', localStorage')]_vars

\* The player was used for both episodes and closed; both records are there.
C23_Witness ==
    /\ ~mounted
    /\ \E r0, r1 \in progressTable :
           /\ r0.episode_index = 0 /\ r1.episode_index = 1
           /\ r0.timestamp = Num(PosStep)

(***************************************************************************)
(* Remembered volume and speed at mount                                    *)
(***************************************************************************)
\* What the preference store can hold under a key: "0.5", "1.5", "abc", "5".
PrefValues == {<<"0", ".", "5">>, <<"1", ".", "5">>, <<"a", "b", "c">>, <<"5">>}
ValidVolumes == {<<"0", ".", "5">>}
ValidSpeeds == {<<"0", ".", "5">>, <<"1", ".", "5">>}
PrefStores ==
    UNION {[K -> PrefValues] : K \in SUBSET {STORAGE_KEY_VOLUME, STORAGE_KEY_SPEED}}

InitPrefs ==
    /\ cfg \in [modal : Modals, db : {"dbService"}, userId : {"u1"}]
    /\ storage \in {"ok", "denied"}
    /\ tracks = [en |-> <<"A", "D">>, es |-> EsBlocks]
    /\ mounted = FALSE
    /\ currentEpisodeIndex = 0
    /\ isPlaying = FALSE
    /\ video = [paused |-> TRUE, currentTime |-> 0]
    /\ currentTime = 0
    /\ playbackRate = Num(1000)
    /\ currentSubtitleTrackId = NoTrack
    /\ subtitleCues = <<>>
    /\ activeSubtitle = Empty
    /\ loads = {}
    /\ saveTimer = [active |-> FALSE, episodeIndex |-> 0]
    /\ trace = <<>>
    /\ inflight = {}
    /\ progressTable = {}
    /\ localStorage \in PrefStores
    /\ console = <<>>
    /\ unhandled = <<>>
    /\ ev = <<"init">>
    /\ ret = [rejected |-> FALSE, value |-> Num(0)]
    /\ written = << >>
    /\ vtt = NoParse
    /\ advanceTimers = 0
    /\ NoLogin
    /\ supabase = NoAuth

\* The modal mounts and its persistence effect runs.
mountPrefs ==
    /\ ev[1] = "init"
    /\ ev' = <<"mount">>
    /\ ret' = persistenceInit
    /\ playbackRate' = persistenceInit.playbackRate
    /\ console' = <<>>
    /\ unhandled' = IF persistenceInit.raised
                    THEN <<"exception: persistence initialization">> ELSE <<>>
    /\ UNCHANGED <<configVars, vtt, advanceTimers, loginVars, supabase, playerVars, subtitleVars, inflight, progressTable,
                   localStorage, written>>

NextPrefs == mountPrefs

SpecPrefs == InitPrefs /\ [][NextPrefs]_vars

\* The store cannot be read, or holds under the key a value that is not valid.
VolumeUnusable ==
    \/ storage = "denied"
    \/ /\ STORAGE_KEY_VOLUME \in DOMAIN localStorage
       /\ localStorage[STORAGE_KEY_VOLUME] \notin ValidVolumes
SpeedUnusable ==
    \/ storage = "denied"
    \/ /\ STORAGE_KEY_SPEED \in DOMAIN localStorage
       /\ localStorage[STORAGE_KEY_SPEED] \notin ValidSpeeds

\* C24: after the persistence effect, a volume that could not be read or is
\* not valid has left the volume at 1, a speed that could not be read or is
\* not valid has left the speed at 1, and the effect has not thrown.
C24_PreferenceFallback ==
    ev[1] = "mount" =>
        /\ ~ret.raised
        /\ VolumeUnusable => ret.volume = Num(1000)
        /\ SpeedUnusable => ret.playbackRate = Num(1000)

(***************************************************************************)
(* Loads and saves of different episodes                                   *)
(***************************************************************************)
\* Saves a step starts, by the timer or by a cleanup.
SavesIssued == inflight' \ inflight

\* C25: a value is saved under the key of an episode only once the load of
\* that episode has been applied: no step starts a save, or writes a progress
\* key, while the load of the current episode is still awaited.
C25_NoCrossEpisodeContamination ==
    [][(SavesIssued # {} \/ ProgressKeysWritten # {}) => ~LoadPending]_vars

(***************************************************************************)
(* Answers of getProgress that arrive late                                 *)
(***************************************************************************)
\* The player is opened, switched and closed while getProgress is slow; ev
\* records, for an answer, the episode it is for and what was current.
NextLoads ==
    \/ \E playOk \in BOOLEAN : Open(playOk) /\ ev' = <<"open">>
    \/ \E idx \in Episodes, playOk \in BOOLEAN :
          handleEpisodeClick(idx, playOk) /\ ev' = <<"click">>
    \/ \E playOk \in BOOLEAN : handleNextEpisode(playOk) /\ ev' = <<"click">>
    \/ \E playOk \in BOOLEAN : handlePrevEpisode(playOk) /\ ev' = <<"click">>
    \/ \E m \in inflight, o \in Outcomes :
          SaveDone(m, o) /\ ev' = <<"done">> /\ UNCHANGED written
    \/ \E l \in loads, o \in Outcomes, playOk \in BOOLEAN :
          /\ LoadDone(l, o, playOk)
          /\ ev' = <<"getProgress", l.episodeIndex, currentEpisodeIndex, mounted>>
    \/ \E refAttached \in BOOLEAN : Close(refAttached) /\ ev' = <<"close">>

SpecLoads == InitControls /\ [][NextLoads]_vars

\* A step in which the answer for load l arrives.
Answered(l) == l \in loads /\ loads' = loads \ {l}

\* C26: an answer of getProgress for an episode that is no longer the current
\* one, or that arrives with the player closed, leaves the video, the
\* displayed time and the playing flag as they are; the only load whose
\* answer can still be applied is the one of the current episode of an open
\* player.
C26_StaleLoadDiscarded ==
    [][/\ \A l \in loads :
              (Answered(l) /\ (~mounted \/ l.episodeIndex # currentEpisodeIndex))
                  => UNCHANGED <<video, currentTime, isPlaying>>
       /\ \A l \in loads' :
              l.isMounted => (mounted' /\ l.episodeIndex = currentEpisodeIndex')]_vars

\* The answer for episode 0 (stored position 3 s) arrived with episode 1
\* current: the video is still where it was and episode 1's load is awaited.
C26_Witness ==
    /\ ev = <<"getProgress", 0, 1, TRUE>>
    /\ \E r \in progressTable : r.episode_index = 0 /\ r.timestamp = Num(PosStep)
    /\ video.currentTime = 0 /\ currentTime = 0 /\ ~isPlaying
    /\ [episodeIndex |-> 1, isMounted |-> TRUE] \in loads

(***************************************************************************)
(* The episode index under clicks and the delayed auto-advance             *)
(***************************************************************************)
\* The video reaches its end: the element pauses and fires 'ended'.  Every
\* version clears isPlaying; part_003 also schedules the advance to the next
\* episode one second later when the current one is not the last.
handleEnded ==
    LET schedules == cfg.modal = "part_003" /\ currentEpisodeIndex < NumEpisodes - 1
    IN  /\ mounted
        /\ ~video.paused
        /\ video.currentTime = MaxPos * PosStep
        /\ schedules => advanceTimers < MaxTimers
        /\ video' = [video EXCEPT !.paused = TRUE]
        /\ isPlaying' = FALSE
        /\ advanceTimers' = IF schedules THEN advanceTimers + 1 ELSE advanceTimers
        /\ console' = <<>>
        /\ unhandled' = <<>>
        /\ UNCHANGED <<configVars, vtt, loginVars, supabase, playbackRate, mounted,
                       currentEpisodeIndex, currentTime, loads, saveTimer, trace,
                       subtitleVars, inflight, progressTable, localStorage, ret,
                       written>>

\* The timeout of handleEnded fires: setCurrentEpisodeIndex(prev => prev + 1),
\* on whatever the index is by then; the save and load effects follow it.
autoAdvance(playOk) ==
    LET idx == currentEpisodeIndex + 1
    IN  /\ advanceTimers > 0
        /\ mounted
        /\ idx <= NumEpisodes
        /\ advanceTimers' = advanceTimers - 1
        /\ saveCleanup(saveTimer.episodeIndex, TRUE)
        /\ IF modalSaveThrows
           THEN /\ Unmounted
                /\ console' = <<>>
                /\ unhandled' = cleanupUnhandled(saveTimer.episodeIndex, TRUE)
           ELSE /\ currentEpisodeIndex' = idx
                /\ loadProgress(idx, isPlaying, playOk)
                /\ saveTimer' = setInterval(idx)
                /\ console' = cleanupLogs(saveTimer.episodeIndex, TRUE) \o loadLogs
                /\ unhandled' = cleanupUnhandled(saveTimer.episodeIndex, TRUE) \o loadUnhandled
                /\ UNCHANGED <<mounted, playbackRate, subtitleVars>>
        /\ UNCHANGED <<configVars, vtt, loginVars, supabase, progressTable, ret, written>>

NextEpisodes ==
    \/ \E playOk \in BOOLEAN : Open(playOk) /\ ev' = <<"open">>
    \/ \E idx \in Episodes, playOk \in BOOLEAN :
          handleEpisodeClick(idx, playOk) /\ ev' = <<"list">>
    \/ \E playOk \in BOOLEAN : handleNextEpisode(playOk) /\ ev' = <<"next">>
    \/ \E playOk \in BOOLEAN : handlePrevEpisode(playOk) /\ ev' = <<"previous">>
    \/ \E playOk \in BOOLEAN : togglePlay(playOk) /\ ev' = <<"play">>
    \/ playback /\ ev' = <<"play">>
    \/ \E m \in inflight, o \in Outcomes :
          SaveDone(m, o) /\ ev' = <<"done">> /\ UNCHANGED written
    \/ \E l \in loads, o \in Outcomes, playOk \in BOOLEAN :
          LoadDone(l, o, playOk) /\ ev' = <<"done">>
    \/ handleEnded /\ ev' = <<"ended">>
    \/ \E playOk \in BOOLEAN : autoAdvance(playOk) /\ ev' = <<"timeout">>

SpecEpisodes == InitControls /\ [][NextEpisodes]_vars

\* C27: the episode index is always one of 0 .. episodes.length - 1.
C27_EpisodeIndexInRange == currentEpisodeIndex \in Episodes

(***************************************************************************)
(* The login form and its rate limiter                                     *)
(***************************************************************************)
Upper == {"A", "B", "C", "D", "E", "F", "G", "H", "I", "J", "K", "L", "M",
          "N", "O", "P", "Q", "R", "S", "T", "U", "V", "W", "X", "Y", "Z"}
Lower == {"a", "b", "c", "d", "e", "f", "g", "h", "i", "j", "k", "l", "m",
          "n", "o", "p", "q", "r", "s", "t", "u", "v", "w", "x", "y", "z"}

\* /^[^\s@]+@[^\s@]+\.[^\s@]+$/ on the trimmed address.
isValidEmail(email) ==
    LET t == trim(email)
        ats == {i \in 1..Len(t) : t[i] = "@"}
    IN  /\ email # <<>>
        /\ \A i \in 1..Len(t) : ~IsSpace(t[i])
        /\ Cardinality(ats) = 1
        /\ LET a == CHOOSE i \in ats : TRUE
           IN  /\ a > 1
               /\ \E d \in (a + 2)..(Len(t) - 1) : t[d] = "."

validatePassword(password) ==
    IF password = <<>> THEN <<"Password is required">>
    ELSE IF Len(password) < 8 THEN <<"Password must be at least 8 characters long">>
    ELSE IF ~\E i \in 1..Len(password) : password[i] \in Upper
    THEN <<"Password must contain at least one uppercase letter">>
    ELSE IF ~\E i \in 1..Len(password) : IsDigit(password[i])
    THEN <<"Password must contain at least one number">>
    ELSE <<>>

validateUsername(username) ==
    LET trimmed == trim(username)
    IN  IF username = <<>> THEN <<"Username is required">>
        ELSE IF Len(trimmed) < 3 THEN <<"Username must be at least 3 characters long">>
        ELSE IF Len(trimmed) > 20 THEN <<"Username must be 20 characters or less">>
        ELSE IF ~\A i \in 1..Len(trimmed) :
                    trimmed[i] \in Upper \cup Lower \cup {"_"} \/ IsDigit(trimmed[i])
        THEN <<"Username can only contain letters, numbers, and underscores">>
        ELSE <<>>

\* The message the form shows for what was typed, << >> when it passes.
validationError(form) ==
    IF form.email = <<>> \/ form.password = <<>> THEN <<"Please fill in all fields">>
    ELSE IF ~isValidEmail(form.email) THEN <<"Please enter a valid email address">>
    ELSE IF ~form.isSignUp THEN <<>>
    ELSE IF form.username = <<>> THEN <<"Username is required for sign up">>
    ELSE IF validateUsername(form.username) # <<>> THEN validateUsername(form.username)
    ELSE validatePassword(form.password)

\* this.attempts.filter(time => now - time < this.windowMs)
filterAttempts(attempts, t) ==
    SelectSeq(attempts, LAMBDA time : t - time < LoginWindowMs)

underLimit_inclusive(attempts) == Len(attempts) <= LoginMaxAttempts

\* this.attempts.length < this.maxAttempts
underLimit(attempts) == Len(attempts) < LoginMaxAttempts

Min(S) == CHOOSE x \in S : \A y \in S : x <= y
Max(a, b) == IF a >= b THEN a ELSE b
Ceil(a, b) == (a + b - 1) \div b

getTimeUntilReset(attempts, t) ==
    IF attempts = <<>> THEN 0
    ELSE Max(0, Min({attempts[i] : i \in 1..Len(attempts)}) + LoginWindowMs - t)

tooMany(waitTime) ==
    <<"Too many login attempts. Please try again in", waitTime, "seconds.">>

\* "a@b.co", "a@b"; "pw", "Passw0rd"; "neo_1", "ab".
LoginForms ==
    LET mail == <<"a", "@", "b", ".", "c", "o">>
        nodot == <<"a", "@", "b">>
        pw == <<"p", "w">>
        strong == <<"P", "a", "s", "s", "w", "0", "r", "d">>
        name == <<"n", "e", "o", "_", "1">>
    IN  { [email |-> mail, password |-> pw, username |-> <<>>, isSignUp |-> FALSE],
          [email |-> mail, password |-> <<>>, username |-> <<>>, isSignUp |-> FALSE],
          [email |-> nodot, password |-> pw, username |-> <<>>, isSignUp |-> FALSE],
          [email |-> mail, password |-> strong, username |-> name, isSignUp |-> TRUE],
          [email |-> mail, password |-> strong, username |-> <<"a", "b">>, isSignUp |-> TRUE],
          [email |-> mail, password |-> pw, username |-> name, isSignUp |-> TRUE] }

loginFrame == <<configVars, playerVars, playbackRate, subtitleVars, inflight,
                progressTable, localStorage, console, unhandled, ret, written,
                vtt, advanceTimers, supabase>>

\* The form is submitted; onLogin resolves or throws.
handleLoginSubmit(form, throws) ==
    LET kept == filterAttempts(loginRateLimiter.attempts, now)
    IN  /\ ev' = <<"submit", form>>
        /\ IF validationError(form) # <<>>
           THEN /\ error' = validationError(form)
                /\ UNCHANGED <<loginRateLimiter, onLogin>>
           ELSE IF ~underLimit(kept)
           THEN /\ loginRateLimiter' = [attempts |-> kept]
                /\ error' = tooMany(Ceil(getTimeUntilReset(kept, now), 1000))
                /\ UNCHANGED onLogin
           ELSE /\ loginRateLimiter' = [attempts |-> Append(kept, now)]
                /\ onLogin' = Append(onLogin, now)
                /\ error' = IF throws THEN <<"Authentication failed">> ELSE <<>>
        /\ UNCHANGED <<now, loginFrame>>

\* Time passes.
tick ==
    /\ now < MaxTicks * Tick
    /\ now' = now + Tick
    /\ ev' = <<"tick">>
    /\ UNCHANGED <<loginRateLimiter, onLogin, error, loginFrame>>

InitLogin ==
    /\ cfg = [modal |-> "VideoModal", db |-> "dbService", userId |-> "u1"]
    /\ storage = "ok"
    /\ tracks = [en |-> <<"A", "D">>, es |-> EsBlocks]
    /\ Idle

NextLogin ==
    \/ \E form \in LoginForms, throws \in BOOLEAN : handleLoginSubmit(form, throws)
    \/ tick

SpecLogin == InitLogin /\ [][NextLogin]_vars

\* The calls of onLogin made less than a window before time t.
CallsInWindow(calls, t) ==
    Cardinality({i \in 1..Len(calls) : t - calls[i] < LoginWindowMs})

\* The last step is a submit of a form that passes validation.
ValidSubmit == ev'[1] = "submit" /\ validationError(ev'[2]) = <<>>

\* C28: no 60-second window holds more than 5 calls of onLogin; a submit that
\* passes validation while 5 calls lie in the window is answered with the
\* "too many attempts" error and calls nothing; with fewer than 5 in the
\* window it is forwarded again.
C28_LoginRateLimit ==
    [][/\ \A i \in 1..Len(onLogin') : CallsInWindow(SubSeq(onLogin', 1, i), onLogin'[i]) <= 5
       /\ (ValidSubmit /\ CallsInWindow(onLogin, now) >= 5)
             => /\ onLogin' = onLogin
                /\ Len(loginRateLimiter'.attempts) = 5
                /\ error'[1] = tooMany(0)[1]
       /\ (ValidSubmit /\ CallsInWindow(onLogin, now) < 5)
             => onLogin' = Append(onLogin, now)]_vars

\* Five attempts were forwarded from 0 ms on; a sixth at 40 s is refused for
\* another 20 s.
C28_Witness ==
    /\ ev[1] = "submit" /\ validationError(ev[2]) = <<>>
    /\ now = 2 * Tick
    /\ Len(onLogin) = 5 /\ onLogin[1] = 0
    /\ error = tooMany(20)

(***************************************************************************)
(* The return from the Google OAuth redirect                               *)
(***************************************************************************)
NoSession == <<>>
GoogleId == "g1"
Null == "null"

\* What supabase.auth.getSession() can hold: no session, a user with an
\* email (with or without a full name), a user without one.
Sessions ==
    {NoSession}
        \cup {<<[id |-> GoogleId, email |-> e, full_name |-> n]>> :
                 e \in {<<>>, <<"a", "@", "b", ".", "c", "o">>},
                 n \in {<<>>, <<"N", "e", "o">>}}

\* The table 'profiles' before the callback: empty or with the user's row.
ProfileTables ==
    {{}} \cup {{[id |-> GoogleId, username |-> <<"o", "l", "d">>, is_admin |-> a]} :
                  a \in BOOLEAN}

\* The `mode` parameter of the callback URL; Null when it is absent.
Modes == {"signin", "signup", "other", Null}

\* .from('profiles').select(...).eq('id', id).single()
single(profiles, id, outcome) ==
    LET rows == {q \in profiles : q.id = id}
    IN  IF outcome = "ok" /\ Cardinality(rows) = 1
        THEN [data |-> <<CHOOSE q \in rows : TRUE>>, error |-> Null]
        ELSE [data |-> <<>>, error |-> IF outcome = "ok" THEN "PGRST116" ELSE "error"]

\* .from('profiles').insert(row): the id is the primary key.
insert(profiles, row, outcome) ==
    IF outcome # "ok" THEN [profiles |-> profiles, error |-> "error"]
    ELSE IF \E q \in profiles : q.id = row.id
    THEN [profiles |-> profiles, error |-> "23505"]
    ELSE [profiles |-> profiles \cup {row}, error |-> Null]

insertFailed_never(insertError) == FALSE

\* if (insertError)
insertFailed(insertError) == insertError # Null

\* supabase.auth.signOut(): the session is gone when the call succeeds.
signOut(sb, signOutOk) ==
    [sb EXCEPT !.session = IF signOutOk THEN NoSession ELSE @,
               !.signOutCalls = @ + 1]

userOf(authUser, username, isAdmin) ==
    <<[id |-> authUser.id, username |-> username, email |-> authUser.email,
       isAdmin |-> isAdmin]>>

\* What handleGoogleCallback returns and how it leaves the backend, for the
\* outcomes o = [getSession, select, insert, signOut] of its calls.
googleCallback(sb, o) ==
    LET done == [sb EXCEPT !.pc = "done"]
        result(user, err, sb1) == [user |-> user, error |-> err, supabase |-> sb1]
    IN  IF o.getSession = "exception"
        THEN result(<<>>, "exception", signOut(done, o.signOut))
        ELSE IF o.getSession = "error" THEN result(<<>>, "sessionError", done)
        ELSE IF sb.session = NoSession THEN result(<<>>, "No session found", done)
        ELSE LET authUser == sb.session[1]
                 email == authUser.email
             IN  IF email = <<>>
                 THEN result(<<>>, "Email not found in Google account",
                             signOut(done, o.signOut))
                 ELSE IF o.select = "exception"
                 THEN result(<<>>, "exception", signOut(done, o.signOut))
                 ELSE LET r == single(sb.profiles, authUser.id, o.select)
                          username == IF authUser.full_name # <<>>
                                      THEN authUser.full_name
                                      ELSE split(email, <<"@">>)[1]
                          ins == insert(sb.profiles,
                                        [id |-> authUser.id, username |-> username,
                                         is_admin |-> FALSE], o.insert)
                      IN  IF sb.mode = "signin"
                          THEN IF r.error # Null \/ r.data = <<>>
                               THEN result(<<>>, "Account not found. Please sign up first.",
                                           signOut(done, o.signOut))
                               ELSE result(userOf(authUser, r.data[1].username,
                                                  r.data[1].is_admin), Null, done)
                          ELSE IF sb.mode = "signup"
                          THEN IF r.data # <<>>
                               THEN result(userOf(authUser, r.data[1].username,
                                                  r.data[1].is_admin), Null, done)
                               ELSE IF o.insert = "exception"
                               THEN result(<<>>, "exception", signOut(done, o.signOut))
                               ELSE IF insertFailed(ins.error)
                               THEN result(<<>>, ins.error,
                                           signOut([done EXCEPT !.profiles = ins.profiles],
                                                   o.signOut))
                               ELSE result(userOf(authUser, username, FALSE), Null,
                                           [done EXCEPT !.profiles = ins.profiles])
                          ELSE result(<<>>, "Invalid authentication mode",
                                      signOut(done, o.signOut))

authFrame == <<configVars, playerVars, playbackRate, subtitleVars, inflight,
               progressTable, localStorage, console, unhandled, written, vtt,
               advanceTimers, loginVars>>

\* Google redirects back to the application.
redirect(mode, session, profiles) ==
    /\ supabase.pc = "idle"
    /\ supabase' = [pc |-> "callback", mode |-> mode, session |-> session,
                    profiles |-> profiles, signOutCalls |-> 0]
    /\ ev' = <<"redirect">>
    /\ UNCHANGED <<ret, authFrame>>

CallOutcomes ==
    [getSession : Outcomes, select : Outcomes, insert : Outcomes, signOut : BOOLEAN]

handleGoogleCallback(o) ==
    /\ supabase.pc = "callback"
    /\ LET res == googleCallback(supabase, o)
       IN  /\ supabase' = res.supabase
           /\ ret' = [rejected |-> FALSE,
                      value |-> [user |-> res.user, error |-> res.error]]
    /\ ev' = <<"handleGoogleCallback", o>>
    /\ UNCHANGED authFrame

NextAuth ==
    \/ \E mode \in Modes, session \in Sessions, profiles \in ProfileTables :
          redirect(mode, session, profiles)
    \/ \E o \in CallOutcomes : handleGoogleCallback(o)

SpecAuth == InitLogin /\ [][NextAuth]_vars

HasProfile(profiles, id) == \E q \in profiles : q.id = id

\* The cases in which the callback must refuse.
MustRefuse ==
    /\ ev'[2].getSession = "ok"
    /\ supabase.session # NoSession
    /\ \/ supabase.session[1].email = <<>>
       \/ supabase.mode \notin {"signin", "signup"}
       \/ supabase.mode = "signin" /\ ~HasProfile(supabase.profiles, GoogleId)
       \/ /\ supabase.mode = "signup"
          /\ ev'[2].select = "ok"
          /\ ~HasProfile(supabase.profiles, GoogleId)
          /\ ev'[2].insert = "error"

\* C29: handleGoogleCallback returns a user only for a session user whose
\* profile row existed (sign-in or sign-up mode) or was inserted by this call
\* (sign-up mode), and then without an error; in sign-in mode without a
\* profile, on a failed insert, on a missing email and on an unknown mode it
\* calls signOut (the session is gone when that call succeeds) and returns
\* user null with an error.
C29_NoUserWithoutProfile ==
    [][ev'[1] = "handleGoogleCallback" =>
          LET res == ret'.value
          IN  /\ res.user # <<>> =>
                    /\ supabase.session # NoSession
                    /\ res.user[1].id = supabase.session[1].id
                    /\ res.error = Null
                    /\ supabase.mode \in {"signin", "signup"}
                    /\ HasProfile(supabase'.profiles, res.user[1].id)
                    /\ \/ HasProfile(supabase.profiles, res.user[1].id)
                       \/ supabase.mode = "signup"
                    /\ supabase'.signOutCalls = 0
              /\ MustRefuse =>
                    /\ res.user = <<>>
                    /\ res.error # Null
                    /\ supabase'.signOutCalls = 1
                    /\ ev'[2].signOut => supabase'.session = NoSession
                    /\ supabase'.profiles = supabase.profiles
              /\ res.user = <<>> <=> res.error # Null]_vars

\* A sign-up whose insert failed: nobody is signed in, no row was written.
C29_Witness ==
    /\ ev[1] = "handleGoogleCallback"
    /\ ev[2].insert = "error" /\ ev[2].select = "ok" /\ ev[2].getSession = "ok"
    /\ supabase.mode = "signup"
    /\ supabase.profiles = {}
    /\ supabase.signOutCalls = 1 /\ supabase.session = NoSession
    /\ ret.value.user = <<>> /\ ret.value.error = "error"

====
